---- MODULE Spec2Model ----
(***************************************************************************)
(* A model of the STRATUS Bug Advisor: the SQLite schema with its          *)
(* usage-statistics trigger (database/schema.sql), and the admin           *)
(* dashboards that sit in front of the configuration endpoints.            *)
(***************************************************************************)
EXTENDS Integers, Sequences, FiniteSets, TLC, Bags

\* ------------------------------------------------------------------ bounds

\* Rows that may ever be inserted into query_logs in one run.
MaxLogs == 2
\* Timestamps are whole ticks; a calendar day is TicksPerDay ticks.
TicksPerDay == 2

\* ------------------------------------------------------------ SQL values

\* A nullable SQL value is <<>> (NULL) or <<v>>.
Null == <<>>
Val(v) == <<v>>
IsNull(x) == x = <<>>
Get(x) == x[1]

RECURSIVE Gcd(_, _)
Gcd(a, b) == IF b = 0 THEN a ELSE Gcd(b, a % b)

\* The exact value n/d of a REAL, kept in lowest terms (d > 0, n >= 0).
Rat(n, d) == LET g == Gcd(n, d) IN [num |-> n \div g, den |-> d \div g]

\* ------------------------------------------------------------- variables

VARIABLES
    query_logs,     \* rows of table query_logs
    usage_stats,    \* rows of table usage_stats
    log_seq,        \* sqlite_sequence entry of query_logs (AUTOINCREMENT)
    writer,         \* the connection holding SQLite's write lock, or "none"
    conn,           \* what each connection is doing
    journal,        \* the rollback journal of the open write transaction
    inserted_by,    \* history: which connection inserted which row
    db_last,        \* history: the last INSERT in a transaction, or report
    api_key,        \* api_config: config_value of the row 'claude_api_key'
    acct,           \* admin_users: the row of the seeded admin
    session,        \* the gate's state for the browser's session credential
    now,            \* the clock, in ticks
    same_origin,    \* the legacy dashboard is served from the API's origin
    dashboard,      \* state of AdminDashboard (isAuthenticated, config, ...)
    login,          \* state of AdminLogin (error, loading)
    legacy,         \* state of the legacy AdminDashboard (apiKey, ...)
    pending,        \* fetches under way and answers not yet handled (a bag)
    timers,         \* setTimeout callbacks of saveConfig not yet run
    auth_last,      \* history: the last login the gate evaluated
    cfg_last,       \* history: the last configuration write the server got
    ui_last,        \* history: the last handler step the admin UIs ran
    response_cache, \* rows of table response_cache
    cache_seq,      \* sqlite_sequence entry of response_cache
    cache_last,     \* history: the last lookup or store on the cache
    app,            \* state of App (selectedProduct, query, isLoading, ...)
    calls,          \* the POST /api/analyze request of each caller
    sent_count,     \* how many analyze requests have been sent
    ai_calls,       \* history: how many external AI calls were started
    app_copy,       \* which copy of App the browser was served
    feedback,       \* rows of table feedback
    feedback_seq,   \* sqlite_sequence entry of feedback
    foreign_keys,   \* whether the database enforces foreign keys
    purge_last      \* history: the last purge of a query_logs row

dbvars == <<query_logs, usage_stats, log_seq, writer, conn, journal,
            inserted_by, db_last>>

admvars == <<api_key, acct, session, now, same_origin, dashboard, login,
             legacy, pending, timers, auth_last, cfg_last, ui_last>>

cachevars == <<response_cache, cache_seq, cache_last>>

anavars == <<app, calls, sent_count, ai_calls, app_copy>>

fbvars == <<feedback, feedback_seq, foreign_keys, purge_last>>

\* What the usage-statistics and admin actions leave alone.
facadevars == <<response_cache, cache_seq, cache_last, app, calls,
                sent_count, ai_calls, app_copy, feedback, feedback_seq,
                foreign_keys, purge_last>>

vars == <<query_logs, usage_stats, log_seq, writer, conn, journal,
          inserted_by, db_last, api_key, acct, session, now, same_origin,
          dashboard, login, legacy, pending, timers, auth_last, cfg_last,
          ui_last, response_cache, cache_seq, cache_last, app, calls,
          sent_count, ai_calls, app_copy, feedback, feedback_seq,
          foreign_keys, purge_last>>

Conns == {"c1", "c2"}

\* --------------------------------------------------------------- inputs

\* The timestamps offered: NULL and three instants over two days.
Timestamps == {Null, Val(0), Val(1), Val(TicksPerDay)}

\* (response_time_ms, success) of the rows offered for insertion.
Samples ==
    { [response_time_ms |-> Val(10), success |-> Val(1)],
      [response_time_ms |-> Val(25), success |-> Val(0)],
      [response_time_ms |-> Null,    success |-> Val(1)],
      [response_time_ms |-> Val(25), success |-> Null] }

\* ------------------------------------------------- schema.sql: the trigger

\* DATE(timestamp): the calendar day of a timestamp, NULL for NULL.
DATE(ts) == IF IsNull(ts) THEN Null ELSE Val(Get(ts) \div TicksPerDay)

\* Mutant: the WHERE clause compares full timestamps instead of dates.
SameTimestamp(r, new) ==
    /\ ~IsNull(r.timestamp)
    /\ ~IsNull(new.timestamp)
    /\ r.timestamp = new.timestamp

\* WHERE DATE(timestamp) = DATE(NEW.timestamp): a comparison with NULL is
\* not true, so a NULL date selects no row.
SameDate(r, new) ==
    /\ ~IsNull(DATE(r.timestamp))
    /\ ~IsNull(DATE(new.timestamp))
    /\ DATE(r.timestamp) = DATE(new.timestamp)

\* CASE WHEN success = 1 THEN 1 ELSE 0 END
SuccessFlag(r) == IF ~IsNull(r.success) /\ Get(r.success) = 1 THEN 1 ELSE 0

\* SUM(CASE WHEN success = 1 THEN 1 ELSE 0 END) over the rows S
RECURSIVE SumSuccess(_)
SumSuccess(S) ==
    IF S = {} THEN 0
    ELSE LET r == CHOOSE y \in S : TRUE
         IN  SuccessFlag(r) + SumSuccess(S \ {r})

\* The sum AVG divides: response_time_ms over rows where it is not NULL.
RECURSIVE SumRespTime(_)
SumRespTime(S) ==
    IF S = {} THEN 0
    ELSE LET r == CHOOSE y \in S : TRUE
         IN  Get(r.response_time_ms) + SumRespTime(S \ {r})

\* Mutant: NULL response times averaged in as zeros.
AvgNullAsZero(S) ==
    LET nn == {r \in S : ~IsNull(r.response_time_ms)}
    IN  IF S = {} THEN Null
        ELSE Val(Rat(SumRespTime(nn), Cardinality(S)))

\* AVG(response_time_ms): the mean over the non-NULL values, NULL if none.
AVG(S) ==
    LET nn == {r \in S : ~IsNull(r.response_time_ms)}
    IN  IF nn = {} THEN Null
        ELSE Val(Rat(SumRespTime(nn), Cardinality(nn)))

\* The trigger's SELECT, evaluated on the table `logs` for the row `new`.
\* An aggregate query without GROUP BY yields exactly one row.
UsageStatsSelect(logs, new) ==
    LET S == {r \in logs : SameDate(r, new)}
        n == Cardinality(S)
        s == SumSuccess(S)
    IN  [ date               |-> DATE(new.timestamp),
          total_queries      |-> n,
          successful_queries |-> IF n = 0 THEN Null ELSE Val(s),
          avg_response_time  |-> AVG(S),
          success_rate       |-> IF n = 0 THEN Null ELSE Val(Rat(s * 100, n)) ]

\* The usage_stats row an INSERT naming only the trigger's five columns
\* stores: the other columns take their declared defaults.
UsageStatsRow(rowid, sel) ==
    [ rowid              |-> rowid,
      date               |-> sel.date,
      total_queries      |-> sel.total_queries,
      successful_queries |-> sel.successful_queries,
      avg_response_time  |-> sel.avg_response_time,
      success_rate       |-> sel.success_rate,
      top_products       |-> Null,
      unique_users       |-> 0,
      total_errors       |-> 0 ]

NextRowid(stats) ==
    IF stats = {} THEN 1
    ELSE 1 + (CHOOSE m \in {r.rowid : r \in stats} :
                 \A r \in stats : r.rowid <= m)

\* Mutant: usage_stats without its PRIMARY KEY, so nothing ever collides.
KeyConflictsNoKey(stats, date) == {}

\* Mutant: every row collides, so REPLACE clears the table.
KeyConflictsAnyDate(stats, date) == stats

\* Rows that collide with `date` on the PRIMARY KEY.  SQLite lets a
\* non-INTEGER PRIMARY KEY hold NULL, and NULLs never collide.
KeyConflicts(stats, date) ==
    {r \in stats : ~IsNull(date) /\ r.date = date}

\* Mutant: INSERT OR IGNORE, which keeps the old row on a collision.
InsertOrIgnore(stats, sel) ==
    IF KeyConflicts(stats, sel.date) # {} THEN stats
    ELSE stats \cup {UsageStatsRow(NextRowid(stats), sel)}

\* Mutant: an upsert that updates the five columns of the colliding row and
\* keeps its other columns.
UpsertKeepOthers(stats, sel) ==
    LET old == KeyConflicts(stats, sel.date)
        kept == stats \ old
        new == UsageStatsRow(NextRowid(stats), sel)
    IN  IF old = {} THEN kept \cup {new}
        ELSE kept \cup {[new EXCEPT !.top_products = o.top_products,
                                    !.unique_users = o.unique_users,
                                    !.total_errors = o.total_errors] : o \in old}

\* INSERT OR REPLACE INTO usage_stats: delete the colliding rows, then insert.
InsertOrReplace(stats, sel) ==
    LET kept == stats \ KeyConflicts(stats, sel.date)
    IN  kept \cup {UsageStatsRow(NextRowid(stats), sel)}

\* Mutant: a BEFORE INSERT trigger, which does not see the new row.
TriggerInputBefore(logs, new) == logs

\* AFTER INSERT: the trigger body reads query_logs with the new row in it.
TriggerInput(logs, new) == logs \cup {new}

\* CREATE TRIGGER update_usage_stats_after_query ... END
update_usage_stats_after_query(logs, stats, new) ==
    InsertOrReplace(stats, UsageStatsSelect(TriggerInput(logs, new), new))

\* The row INSERT INTO query_logs stores: AUTOINCREMENT hands out the id.
NewLogRow(seq, ts, smp) ==
    [ id               |-> seq + 1,
      timestamp        |-> ts,
      response_time_ms |-> smp.response_time_ms,
      success          |-> smp.success ]


\* ---------------------------------------------- admin gate and config store
\* The backend behind /api/admin/* is described by the specification
\* (sections 4.3, 6 and 7); the tables it works on are schema.sql's.

\* Ticks the clock may reach.
MaxTime == 4
\* setTimeout callbacks of saveConfig that may be outstanding at once.
MaxTimers == 2

\* N, the configured number of consecutive failures that locks the account,
\* and lockout_duration in ticks.
LockThreshold == 3
LockoutDuration == 2

AdminUser == "admin"
AdminPassword == "stratus2024!"
Usernames == {AdminUser, "guest"}
Passwords == {AdminPassword, "wrong"}

\* API keys an administrator may type.
Keys == {"sk-ant-1"}

\* What GET /api/admin/config reports for claude_api_key: whether it is set,
\* never the value.
ServerMasked == "sk-ant-...(set)"
MaskedPresence(key) == IF key = "" THEN "" ELSE ServerMasked

\* The seeded admin_users row: login_attempts DEFAULT 0, no lock, no login.
AdminRow == [login_attempts |-> 0, locked_until |-> Null, last_login |-> Null]

\* The account is locked at time t.
Locked(a, t) == ~IsNull(a.locked_until) /\ t < Get(a.locked_until)

\* locked_until has elapsed at time t.
LockElapsed(a, t) == ~IsNull(a.locked_until) /\ t >= Get(a.locked_until)

\* Mutant: an elapsed lock is lifted but the failure count is kept.
LiftLockKeepCount(a, t) ==
    IF LockElapsed(a, t) THEN [a EXCEPT !.locked_until = Null] ELSE a

\* An elapsed lock is lifted before the attempt is evaluated.
LiftLock(a, t) ==
    IF LockElapsed(a, t)
    THEN [a EXCEPT !.login_attempts = 0, !.locked_until = Null]
    ELSE a

\* login(username, password): the outcome.
LoginResult(a, user, pw, t) ==
    IF user # AdminUser THEN "InvalidCredentials"
    ELSE IF Locked(a, t) THEN "AccountLocked"
    ELSE IF pw = AdminPassword THEN "ok"
    ELSE "InvalidCredentials"

\* login(username, password): the admin_users row afterwards.
LoginAccount(a, user, pw, t) ==
    IF user # AdminUser \/ Locked(a, t) THEN a
    ELSE LET b == LiftLock(a, t)
             n == b.login_attempts + 1
         IN  IF pw = AdminPassword
             THEN [b EXCEPT !.login_attempts = 0, !.last_login = Val(t)]
             ELSE [b EXCEPT !.login_attempts = n,
                            !.locked_until =
                                IF n >= LockThreshold
                                THEN Val(t + LockoutDuration) ELSE Null]

\* A request is authorised when it carries the credential of a live session.
Authorized(cookie) == cookie /\ session = "LoggedIn"

\* ------------------------------------------------------------- responses

NoResp   == [kind |-> "none", ok |-> FALSE, error |-> "", message |-> "",
             claude_api_key |-> "", admin_username |-> ""]
\* fetch rejected: the request never reached the server.
NetError == [NoResp EXCEPT !.kind = "neterr"]
Ok200    == [NoResp EXCEPT !.kind = "http", !.ok = TRUE]
Unauthorized401 ==
    [NoResp EXCEPT !.kind = "http", !.error = "Unauthorized"]

\* POST /api/admin/login
LoginResponse(result) ==
    IF result = "ok" THEN Ok200
    ELSE [NoResp EXCEPT !.kind = "http", !.error = result]

\* GET /api/admin/config
ConfigGet(cookie) ==
    IF Authorized(cookie)
    THEN [Ok200 EXCEPT !.claude_api_key = MaskedPresence(api_key),
                       !.admin_username = AdminUser]
    ELSE Unauthorized401

\* POST /api/admin/config: the response and the stored key afterwards.
ConfigPost(cookie) == IF Authorized(cookie) THEN Ok200 ELSE Unauthorized401
ConfigPostStore(cookie, key) == IF Authorized(cookie) THEN key ELSE api_key

\* GET /api/admin/status and GET /api/admin/stats: answered to a valid
\* session only.
StatusGet(cookie) == IF Authorized(cookie) THEN Ok200 ELSE Unauthorized401
StatsGet(cookie) == IF Authorized(cookie) THEN Ok200 ELSE Unauthorized401

\* POST /api/admin/test-claude: a call to the external AI with the
\* configured key; works: the AI accepted it.
TestOkText == "Claude API connection successful"
TestFailedText == "Claude API connection failed"
TestClaudePost(cookie, works) ==
    IF ~Authorized(cookie) THEN Unauthorized401
    ELSE IF works /\ api_key # ""
    THEN [Ok200 EXCEPT !.message = TestOkText]
    ELSE [NoResp EXCEPT !.kind = "http", !.message = TestFailedText]

\* Mutant: logging out without a session is refused.
LogoutResponseStrict(s) == IF s = "LoggedIn" THEN Ok200 ELSE Unauthorized401

\* POST /api/admin/logout: the session credential is invalidated, and the
\* call is answered without error whatever the gate's state was.
LogoutResponse(s) == Ok200
LogoutSession(s) == "LoggedOut"

\* ------------------------------------------------ the admin UIs' constants

\* The legacy dashboard's display mask (sixteen bullets in the source).
Mask == "****************"

SavedMsg      == "Configuration saved successfully!"
SaveFailedMsg == "Failed to save configuration"
LoginFailedMsg == "Login failed"
ConnErrMsg    == "Connection error. Please try again."
EnterKeyMsg   == "Please enter a valid Claude API key"
NoServerMsg   == "Failed to connect to the server"

\* The marks testClaudeConnection puts before the server's text (a check
\* mark and a cross in the source), and what a template literal makes of a
\* field the body does not have.
OkMark == "[ok] "
FailMark == "[x] "
Undefined == "undefined"
TestThrewMsg == "Failed to test Claude connection"

\* The texts of the legacy dashboard's testApiConnection.
LegacyTestOkMsg == "Claude API connection successful!"
LegacyTestFailedMsg == "Claude API test failed"
LegacyTestThrewMsg == "Failed to test API connection"

\* a || b on strings
OrElse(a, b) == IF a # "" THEN a ELSE b

\* useState initial values of AdminDashboard, AdminLogin, legacy dashboard;
\* rendered is the isAuthenticated of AdminDashboard's last render, and
\* effect tells that the effect on [isAuthenticated] of that render has
\* yet to run.
DashboardInit ==
    [ isAuthenticated |-> FALSE,
      rendered |-> FALSE,
      effect |-> FALSE,
      config  |-> [claude_api_key |-> "", admin_username |-> "admin"],
      message |-> "",
      loading |-> FALSE,
      systemStatus |-> "unknown",
      stats |-> "initial" ]
LoginInit == [error |-> "", loading |-> FALSE]
LegacyInit ==
    [apiKey |-> "", showApiKey |-> FALSE, isLoading |-> FALSE,
     isTesting |-> FALSE, message |-> Null, systemStatus |-> "null",
     stats |-> "initial"]

\* ------------------------------------------------------ requests under way

\* fetch() calls of one name that may be under way at once.
MaxInFlight == 2

\* The two pages: AdminDashboard with AdminLogin, and the legacy dashboard.
Pages == {"admin", "legacy"}

\* How a request fares within the step that issues it: the server answers
\* it at once, it stays on its way, or it never reaches the server.
Reach == {"now", "later", "never"}

NoBody == [user |-> "", pw |-> "", key |-> "", shown |-> FALSE]

\* A fetch a handler has just issued.  owner tells what has become of the
\* component that awaits it: mounted, unmounted (its state updates are
\* dropped), or gone (the page was left, no continuation runs).
Fetch(page, name, body) ==
    [page |-> page, name |-> name, body |-> body, resp |-> NoResp,
     owner |-> "mounted"]

\* The endpoint a handler calls.
Endpoint(q) ==
    CASE q.name \in {"checkAuthStatus", "loadConfig", "loadConfiguration"}
             -> "GET config"
      [] q.name \in {"saveConfig", "saveConfiguration"} -> "POST config"
      [] q.name = "handleSubmit" -> "POST login"
      [] q.name = "handleLogout" -> "POST logout"
      [] q.name = "loadSystemStatus" -> "GET status"
      [] q.name = "loadStats" -> "GET stats"
      [] OTHER -> "POST test-claude"

\* Requests that change the server's state.
Writes(q) == Endpoint(q) \in {"POST config", "POST login", "POST logout"}

\* credentials: 'include' on every fetch of AdminDashboard and AdminLogin;
\* the legacy dashboard's fetches name no credentials, so the cookie goes
\* along only when the page shares the API's origin.
Cookie(q) == q.page = "admin" \/ same_origin

\* What the server answers to q in the present state.
Answer(q, works) ==
    CASE Endpoint(q) = "GET config" -> ConfigGet(Cookie(q))
      [] Endpoint(q) = "POST config" -> ConfigPost(Cookie(q))
      [] Endpoint(q) = "POST login" ->
             LoginResponse(LoginResult(acct, q.body.user, q.body.pw, now))
      [] Endpoint(q) = "POST logout" -> LogoutResponse(session)
      [] Endpoint(q) = "GET status" -> StatusGet(Cookie(q))
      [] Endpoint(q) = "GET stats" -> StatsGet(Cookie(q))
      [] OTHER -> TestClaudePost(Cookie(q), works)

\* The request as it stands at the end of the step that issued it.
Issued(q, reach, works) ==
    [q EXCEPT !.resp = CASE reach = "now" -> Answer(q, works)
                         [] reach = "never" -> NetError
                         [] OTHER -> NoResp]

\* Bags of requests.
Put(B, Q) == B (+) SetToBag(Q)
Take(B, q) == B (-) SetToBag({q})
Sub(B, D) == [q \in D |-> B[q]]
CountOf(B, page, name) ==
    BagCardinality(Sub(B, {q \in BagToSet(B) :
                              q.page = page /\ q.name = name}))
Room(B, page, name) == CountOf(B, page, name) < MaxInFlight

\* Requests of some handlers of a page whose continuation is yet to run.
Awaited(B, page, names) ==
    BagCardinality(Sub(B, {q \in BagToSet(B) :
                              q.page = page /\ q.name \in names
                                  /\ q.owner # "gone"}))

\* The requests of D, which have one owner, get the owner `to`.
Reowned(B, D, to) ==
    Sub(B, BagToSet(B) \ D)
      (+) [x \in {[q EXCEPT !.owner = to] : q \in D} |->
              B[CHOOSE q \in D : [q EXCEPT !.owner = to] = x]]

\* AdminLogin is unmounted: what its handlers still await will find no
\* component to update.
Unmounted(B) ==
    Reowned(B, {q \in BagToSet(B) : q.name = "handleSubmit"
                                       /\ q.owner = "mounted"}, "unmounted")

\* The page is left: answers are no longer awaited, and a request that is
\* still on its way may yet reach the server.
OnTheWay(B, page) ==
    {q \in BagToSet(B) : q.page = page /\ q.resp.kind = "none" /\ Writes(q)}
Left(B, page) ==
    LET kept == Sub(B, {q \in BagToSet(B) : q.page # page}
                           \cup OnTheWay(B, page))
        um == Reowned(kept, {q \in OnTheWay(kept, page) : q.owner = "mounted"},
                      "unmounted")
    IN  Reowned(um, {q \in OnTheWay(um, page) : q.owner = "unmounted"}, "gone")

\* Answered requests of a handler whose continuation has not run yet.
Answered(page, name) ==
    {q \in BagToSet(pending) :
        q.page = page /\ q.name = name /\ q.resp.kind # "none"}

NoAuthLast ==
    [result |-> "none", user_ok |-> FALSE, pw_ok |-> FALSE, at |-> 0,
     was_locked |-> FALSE, was_elapsed |-> FALSE, attempts_before |-> 0]
NoCfgLast ==
    [by |-> "none", authorized |-> FALSE, shown |-> FALSE, ok |-> FALSE,
     error |-> "", sent |-> "", before |-> ""]
\* Only the steps the properties below speak of are told apart.
Recorded == {"handleLogoutDone", "saveConfiguration",
             "saveConfigurationRejected"}
UiStep(op) == [op |-> IF op \in Recorded THEN op ELSE "step", arg |-> ""]

\* History of a logout the gate evaluated: the gate's state before it.
LogoutStep(op, before) == [op |-> op, arg |-> before]

\* ----------------------------------------------------------------- Init

\* ------------------------------------------- response cache and analysis
\* The facade behind POST /api/analyze is described by the specification
\* (sections 4.2, 4.4, 5 and 7); the tables are schema.sql's and the client
\* is App.

\* Analyze requests sent in one run.
MaxRequests == 3

\* Stores and hits on the cache in one run.
MaxStores == 2
MaxHits == 2

\* api_config 'max_query_length'
MaxQueryLength == 2000

\* maxLength of App's textarea
TextareaMaxLength == 2000

\* api_config 'cache_expiry_hours', in ticks.
CacheExpiryTicks == 2

\* The ids of PRODUCTS.
ProductIds == {"allocator", "formsplus", "premium_tax", "municipal"}

\* Query texts are sequences of characters.
Chars == {" ", "a", "A"}

\* String.prototype.trim: white space is removed from both ends.
RECURSIVE TrimStart(_)
TrimStart(q) ==
    IF q # <<>> /\ Head(q) = " " THEN TrimStart(Tail(q)) ELSE q

RECURSIVE TrimEnd(_)
TrimEnd(q) ==
    IF q # <<>> /\ q[Len(q)] = " "
    THEN TrimEnd(SubSeq(q, 1, Len(q) - 1))
    ELSE q

Trim(q) == TrimEnd(TrimStart(q))

\* Case folding of one character and of a text.
Lower(ch) == IF ch = "A" THEN "a" ELSE ch
Fold(q) == [i \in DOMAIN q |-> Lower(q[i])]

\* Mutant: the query is trimmed but its case is kept.
NormalizeTrimOnly(q) == Trim(q)

\* The normalized query: trimmed and case-folded before hashing.
Normalize(q) == Fold(Trim(q))

\* The cache key: a deterministic hash over (product, normalized query),
\* kept as the pair it is computed from.
QueryHash(product, q) == <<product, Normalize(q)>>

\* Mutant: any named product is accepted.
ValidProductAny(p) == p # ""

\* The facade's validation of the request.
ValidProduct(p) == p \in ProductIds
ValidQuery(q) == Len(q) <= MaxQueryLength
ValidRequest(p, q) == ValidProduct(p) /\ ValidQuery(q)

\* Mutant: a row is still served at the instant it expires.
FreshInclusive(row, t) == ~IsNull(row.expires_at) /\ t <= Get(row.expires_at)

\* A cache row is valid until now >= expires_at.
Fresh(row, t) == ~IsNull(row.expires_at) /\ t < Get(row.expires_at)

\* lookup: the valid row of the key, if there is one.
CacheLookup(cache, key, t) ==
    {row \in cache : row.query_hash = key /\ Fresh(row, t)}

\* Mutant: the trigger raises the count once more.
TriggerHitCountAgain(old, new) == new.hit_count + 1

\* update_cache_hit_count: SET hit_count = NEW.hit_count WHERE id = NEW.id,
\* WHEN NEW.hit_count > OLD.hit_count.
TriggerHitCount(old, new) == new.hit_count

\* Mutant: the trigger without its WHEN clause.
TriggerWhenAlways(old, new) == TRUE

\* WHEN NEW.hit_count > OLD.hit_count
TriggerWhen(old, new) == new.hit_count > old.hit_count

\* Nested trigger programs SQLite runs before it gives up on the statement.
MaxTriggerDepth == 3

\* AFTER UPDATE ON response_cache for the update of row `old` into `new`:
\* the table afterwards and how many times the trigger program ran.  The
\* UPDATE in its body is an update of response_cache too, and fires the
\* trigger again when the connection has recursive triggers on.
RECURSIVE UpdateTrigger(_, _, _, _, _)
UpdateTrigger(cache, old, new, recursive, depth) ==
    IF TriggerWhen(old, new) /\ depth < MaxTriggerDepth
    THEN LET set == [new EXCEPT !.hit_count = TriggerHitCount(old, new)]
             body == {IF row.id = new.id THEN set ELSE row : row \in cache}
             nested == IF recursive
                       THEN UpdateTrigger(body, new, set, recursive, depth + 1)
                       ELSE [cache |-> body, fired |-> 0]
         IN  [cache |-> nested.cache, fired |-> 1 + nested.fired]
    ELSE [cache |-> cache, fired |-> 0]

\* CREATE TRIGGER update_cache_hit_count ... END, on a connection with
\* SQLite's default of no recursive triggers.
update_cache_hit_count(cache, old, new) ==
    UpdateTrigger(cache, old, new, FALSE, 0).cache

\* A hit: UPDATE response_cache SET hit_count = hit_count + 1 on the row,
\* one statement, and the trigger that runs inside it.
CacheHit(cache, row) ==
    LET new == [row EXCEPT !.hit_count = @ + 1]
    IN  update_cache_hit_count((cache \ {row}) \cup {new}, row, new)

\* Mutant: the new row takes over the id of the row it replaces.
CacheRowidReused(seq, conflicts) ==
    IF conflicts = {} THEN seq + 1 ELSE (CHOOSE row \in conflicts : TRUE).id

\* id INTEGER PRIMARY KEY AUTOINCREMENT: an id is never used twice.
CacheRowid(seq, conflicts) == seq + 1

\* Mutant: the row expires when it is created.
ExpiresAtCreated(created, ttl) == created

\* expires_at of a row stored at `created`.
ExpiresAt(created, ttl) == created + ttl

\* store: INSERT OR REPLACE on the UNIQUE query_hash; hit_count DEFAULT 0.
CacheConflicts(cache, key) == {row \in cache : row.query_hash = key}

CacheRow(seq, cache, key, product, result, t) ==
    [ id            |-> CacheRowid(seq, CacheConflicts(cache, key)),
      query_hash    |-> key,
      product       |-> product,
      response_text |-> result.text,
      confidence    |-> result.confidence,
      created_at    |-> Val(t),
      expires_at    |-> Val(ExpiresAt(t, CacheExpiryTicks)),
      hit_count     |-> 0 ]

CacheStore(seq, cache, key, product, result, t) ==
    (cache \ CacheConflicts(cache, key))
        \cup {CacheRow(seq, cache, key, product, result, t)}

\* What the external AI boundary can come back with.
AiResults == { [text |-> "## Root Cause 1", confidence |-> Val(90)],
               [text |-> "## Root Cause 2", confidence |-> Null] }
UpstreamErrors == {"401 invalid x-api-key", "529 overloaded"}
AiFailures ==
    [kind : {"non2xx"}, text : UpstreamErrors]
        \cup {[kind |-> "malformed", text |-> "no text block in content"],
              [kind |-> "timeout", text |-> "timed out"]}

\* Mutant: the failure reason is sent to the caller.
FailureMessageEcho(failure) == failure.text

\* The message of an UpstreamFailure response, and the reason logged.
AnalysisFailedMsg == "Analysis failed. Please try again later."
FailureMessage(failure) == AnalysisFailedMsg
FailureReason(failure) == failure.text

\* Responses of POST /api/analyze.
NoAnswer ==
    [kind |-> "none", ok |-> FALSE, message |-> "", solution |-> "",
     confidence |-> Null, response_time_ms |-> 0]
\* A fetch that rejects: the message of the error is the browser's, and an
\* error may carry none.
RejectionTexts ==
    {"Failed to fetch", "NetworkError when attempting to fetch resource.",
     "Load failed", ""}
FetchFailed(text) == [NoAnswer EXCEPT !.kind = "neterr", !.message = text]
InvalidRequestMsg == "Invalid request"
InvalidRequest400 ==
    [NoAnswer EXCEPT !.kind = "http", !.message = InvalidRequestMsg]
UpstreamFailure500(failure) ==
    [NoAnswer EXCEPT !.kind = "http", !.message = FailureMessage(failure)]
Analysis200(text, confidence, ms) ==
    [NoAnswer EXCEPT !.kind = "http", !.ok = TRUE, !.solution = text,
                     !.confidence = confidence, !.response_time_ms = ms]

\* The QueryLogEntry of an analysis.
AnalysisLogRow(seq, t, product, q, ms, success, reason) ==
    [ id               |-> seq + 1,
      timestamp        |-> Val(t),
      response_time_ms |-> Val(ms),
      success          |-> Val(success),
      product          |-> product,
      query_hash       |-> Normalize(q),
      error_message    |-> reason ]

\* App's messages.
SelectAndDescribeMsg == "Please select a product and enter a bug description"
AnalyzeFailedMsg == "Failed to analyze bug"
NoBackendMsg ==
    "Failed to connect to the analysis service. Please ensure the backend is running."

\* The callers of POST /api/analyze: App, and any other HTTP client.
Clients == {"direct", "other"}
Callers == {"app"} \cup Clients
UiProducts == {"allocator", "formsplus"}
UiQueries == {<<" ">>, <<"a">>, <<" ", "A">>}

\* Texts about as long as the textarea takes: as many letters as
\* maxLength, one letter more, and a blank before as many letters as
\* maxLength.
Letters(n) == [i \in 1..n |-> "a"]
UiLongTexts ==
    {Letters(TextareaMaxLength), Letters(TextareaMaxLength + 1),
     <<" ">> \o Letters(TextareaMaxLength)}
UiExamples == {<<"A">>}
DirectBodies ==
    { [product |-> "allocator", query |-> <<"A">>],
      [product |-> "allocator", query |-> <<"a", " ">>],
      [product |-> "not-a-real-product", query |-> <<"A">>] }
OtherBodies == { [product |-> "allocator", query |-> <<"a">>] }

\* The two copies of App in the repository.
AppCopies == {"part_001", "part_002"}

AppInit ==
    [selectedProduct |-> "", query |-> <<>>, isLoading |-> FALSE,
     response |-> Null, error |-> Null]

NoCall ==
    [stage |-> "idle", product |-> "", query |-> <<>>, started |-> 0,
     resp |-> NoAnswer, hit |-> FALSE, ai |-> 0, stores |-> 0, logs |-> 0,
     log_id |-> 0, fresh_before |-> FALSE, empty_before |-> FALSE,
     expired_before |-> FALSE, overlap |-> FALSE, failure |-> Null]

NoCacheOp ==
    [op |-> "none", by |-> "", product |-> "", query |-> <<>>, text |-> Null]

\* Feedback rows inserted in one run.
MaxFeedback == 2

\* helpful is yes, no or unset.
Helpful == {Null, Val(1), Val(0)}

\* The log rows and feedback values the retention runs draw from.
RetentionTimestamps == {Val(0), Val(TicksPerDay)}
RetentionSamples == {smp \in Samples : smp.response_time_ms = Val(25)}
RetentionHelpful == {Null, Val(1)}

\* What a feedback row may name as its query.
QueryIds == {Null} \cup {Val(i) : i \in 1..MaxLogs}

NoPurge == [id |-> 0, referring |-> {}]

\* No write transaction is open: there is no rollback journal.
NoJournal == [logs |-> {}, stats |-> {}, seq |-> 0, by |-> {}]

DbInit ==
    /\ query_logs = {}
    /\ usage_stats = {}
    /\ log_seq = 0
    /\ writer = "none"
    /\ conn = [c \in Conns |-> "idle"]
    /\ journal = NoJournal
    /\ inserted_by = {}
    /\ db_last = [op |-> "none", id |-> 0, contended |-> FALSE]

\* The server as installed (empty key, seeded admin, no session), and both
\* dashboards mounted with their first requests already refused.
AdmInit ==
    /\ api_key = ""
    /\ acct = AdminRow
    /\ session = "LoggedOut"
    /\ now = 0
    /\ same_origin \in BOOLEAN
    /\ dashboard = DashboardInit
    /\ login = LoginInit
    /\ legacy = LegacyInit
    /\ pending = EmptyBag
    /\ timers = 0
    /\ auth_last = NoAuthLast
    /\ cfg_last = NoCfgLast
    /\ ui_last = UiStep("none")

\* The cache is empty, App is mounted and no request is under way.
AnaInit ==
    /\ response_cache = {}
    /\ cache_seq = 0
    /\ cache_last = NoCacheOp
    /\ app = AppInit
    /\ calls = [c \in Callers |-> NoCall]
    /\ sent_count = 0
    /\ ai_calls = 0
    /\ app_copy \in AppCopies

\* No feedback yet; SQLite does not enforce foreign keys until a connection
\* turns them on.
FbInit ==
    /\ feedback = {}
    /\ feedback_seq = 0
    /\ foreign_keys = FALSE
    /\ purge_last = NoPurge

Init == DbInit /\ AdmInit /\ AnaInit /\ FbInit

\* The browser is served the second copy of App.
SecondCopyInit == Init /\ app_copy = "part_002"

\* The pages are served from the origin of the API they call.
ServedInit == SecondCopyInit /\ same_origin

\* Either copy of App, served from the origin of the API.
AppServedInit == Init /\ same_origin

\* ------------------------------------------------------ database actions

\* A connection issues BEGIN and asks for the write lock.
DbRequest(c) ==
    /\ conn[c] = "idle"
    /\ log_seq < MaxLogs
    /\ conn' = [conn EXCEPT ![c] = "waiting"]
    /\ UNCHANGED <<query_logs, usage_stats, log_seq, writer, journal,
                   inserted_by, db_last>>
    /\ UNCHANGED <<admvars, facadevars>>

\* SQLite grants the write lock to one connection at a time.
CanWrite(c) == writer = "none"

DbAcquire(c) ==
    /\ conn[c] = "waiting"
    /\ CanWrite(c)
    /\ writer' = c
    /\ conn' = [conn EXCEPT ![c] = "txn"]
    /\ journal' = [logs |-> query_logs, stats |-> usage_stats,
                   seq |-> log_seq, by |-> inserted_by]
    /\ UNCHANGED <<query_logs, usage_stats, log_seq, inserted_by, db_last>>
    /\ UNCHANGED <<admvars, facadevars>>

\* Another connection is waiting for the write lock right now.
Contended == \E o \in Conns : conn[o] = "waiting"

\* INSERT INTO query_logs inside the transaction.  The trigger runs as part
\* of the statement; if any step of the statement fails (stats_fail: the
\* trigger's write hits a storage error), the statement is undone as a whole.
DbInsert(c, ts, smp, stats_fail) ==
    /\ conn[c] = "txn"
    /\ writer = c
    /\ log_seq < MaxLogs
    /\ LET new == NewLogRow(log_seq, ts, smp)
       IN  IF stats_fail
           THEN /\ db_last' = [op |-> "stats_failed", id |-> new.id,
                               contended |-> Contended]
                /\ UNCHANGED <<query_logs, usage_stats, log_seq, inserted_by>>
           ELSE /\ query_logs' = query_logs \cup {new}
                /\ usage_stats' =
                       update_usage_stats_after_query(query_logs, usage_stats, new)
                /\ log_seq' = new.id
                /\ inserted_by' = inserted_by \cup
                       {[id |-> new.id, conn |-> c]}
                /\ db_last' = [op |-> "inserted", id |-> new.id,
                               contended |-> Contended]
    /\ UNCHANGED <<writer, conn, journal>>
    /\ UNCHANGED <<admvars, facadevars>>

DbCommit(c) ==
    /\ conn[c] = "txn"
    /\ writer = c
    /\ writer' = "none"
    /\ conn' = [conn EXCEPT ![c] = "idle"]
    /\ journal' = NoJournal
    /\ UNCHANGED <<query_logs, usage_stats, log_seq, inserted_by, db_last>>
    /\ UNCHANGED <<admvars, facadevars>>

DbRollback(c) ==
    /\ conn[c] = "txn"
    /\ writer = c
    /\ writer' = "none"
    /\ conn' = [conn EXCEPT ![c] = "idle"]
    /\ query_logs' = journal.logs
    /\ usage_stats' = journal.stats
    /\ log_seq' = journal.seq
    /\ inserted_by' = journal.by
    /\ db_last' = [op |-> "rolled_back", id |-> 0, contended |-> FALSE]
    /\ journal' = NoJournal
    /\ UNCHANGED <<admvars, facadevars>>

DbNext ==
    \/ \E c \in Conns : DbRequest(c)
    \/ \E c \in Conns : DbAcquire(c)
    \/ \E c \in Conns, ts \in Timestamps, smp \in Samples, f \in BOOLEAN :
           DbInsert(c, ts, smp, f)
    \/ \E c \in Conns : DbCommit(c)
    \/ \E c \in Conns : DbRollback(c)

\* The database alone: connections inserting into query_logs.
SpecDb == SecondCopyInit /\ [][DbNext]_vars

\* ------------------------------------------------- the server behind /api/admin

srvvars == <<api_key, acct, session>>

\* The server handles q: what becomes of its tables and of the session.
Handle(q) ==
    CASE Endpoint(q) = "POST login" ->
             LET user == q.body.user
                 pw == q.body.pw
                 res == LoginResult(acct, user, pw, now)
             IN  /\ acct' = LoginAccount(acct, user, pw, now)
                 /\ session' = IF res = "ok" THEN "LoggedIn" ELSE session
                 /\ auth_last' =
                        [result |-> res,
                         user_ok |-> user = AdminUser,
                         pw_ok |-> pw = AdminPassword,
                         at |-> now,
                         was_locked |-> user = AdminUser /\ Locked(acct, now),
                         was_elapsed |-> user = AdminUser /\ LockElapsed(acct, now),
                         attempts_before |-> acct.login_attempts]
                 /\ UNCHANGED <<api_key, cfg_last>>
      [] Endpoint(q) = "POST config" ->
             /\ api_key' = ConfigPostStore(Cookie(q), q.body.key)
             /\ cfg_last' = [by |-> q.name,
                             authorized |-> Authorized(Cookie(q)),
                             shown |-> q.body.shown,
                             ok |-> ConfigPost(Cookie(q)).ok,
                             error |-> ConfigPost(Cookie(q)).error,
                             sent |-> q.body.key,
                             before |-> api_key]
             /\ UNCHANGED <<acct, session, auth_last>>
      [] Endpoint(q) = "POST logout" ->
             /\ session' = LogoutSession(session)
             /\ UNCHANGED <<api_key, acct, auth_last, cfg_last>>
      [] OTHER -> UNCHANGED <<api_key, acct, session, auth_last, cfg_last>>

\* The server's part of the step that issues q.
Sent(q, reach) ==
    IF reach = "now" THEN Handle(q)
    ELSE UNCHANGED <<api_key, acct, session, auth_last, cfg_last>>

\* History of the server handling q.
ServedStep(q) ==
    IF Endpoint(q) = "POST logout"
    THEN LogoutStep("handleLogout",
                    IF LogoutResponse(session).ok THEN session ELSE "refused")
    ELSE UiStep("serve")

\* A request on its way reaches the server and is answered.
Serve(q, works) ==
    /\ q \in BagToSet(pending)
    /\ q.resp.kind = "none"
    /\ Handle(q)
    /\ pending' = IF q.owner = "gone" THEN Take(pending, q)
                  ELSE Put(Take(pending, q), {Issued(q, "now", works)})
    /\ ui_last' = ServedStep(q)
    /\ UNCHANGED <<now, same_origin, dashboard, login, legacy, timers>>
    /\ UNCHANGED <<dbvars, facadevars>>

\* A request on its way is lost: the fetch is rejected.
Fail(q) ==
    /\ q \in BagToSet(pending)
    /\ q.resp.kind = "none"
    /\ pending' = IF q.owner = "gone" THEN Take(pending, q)
                  ELSE Put(Take(pending, q), {Issued(q, "never", FALSE)})
    /\ ui_last' = UiStep("fail")
    /\ UNCHANGED <<srvvars, now, same_origin, dashboard, login, legacy,
                   timers, auth_last, cfg_last>>
    /\ UNCHANGED <<dbvars, facadevars>>

\* ------------------------------------------------- AdminDashboard, AdminLogin

\* if (!isAuthenticated) return <AdminLogin/>: the dashboard and its buttons
\* are on screen when the last render found isAuthenticated true.
DashboardShown == dashboard.rendered

\* setIsAuthenticated has changed the state and React has not rendered yet.
RenderDue == dashboard.rendered # dashboard.isAuthenticated

\* What the effect on [isAuthenticated] calls.
Loads == {"loadConfig", "loadSystemStatus", "loadStats"}

\* A click is modelled only while the calls it may lead to have room: the
\* loader n may be called by the effect, which follows a render after an
\* answer to checkAuthStatus or handleSubmit, and loadSystemStatus by
\* saveConfig.
LoadRoom(n) ==
    Awaited(pending, "admin",
            {n, "handleSubmit", "checkAuthStatus"}
               \cup IF n = "loadSystemStatus" THEN {"saveConfig"} ELSE {})
        + (IF RenderDue /\ dashboard.isAuthenticated THEN 1 ELSE 0)
        + (IF dashboard.effect /\ dashboard.rendered THEN 1 ELSE 0)
        < MaxInFlight
LegacyStatusRoom ==
    Awaited(pending, "legacy",
            {"loadSystemStatus", "saveConfiguration", "testApiConnection"})
        < MaxInFlight

\* The body of useEffect(..., [isAuthenticated]): if (isAuthenticated), with
\* the value of the render the effect belongs to, loadConfig(),
\* loadSystemStatus() and loadStats() are called; reach[n] tells how request
\* n fares.
AuthEffect(B, is_authenticated, reach) ==
    IF is_authenticated
    THEN Put(B, {Issued(Fetch("admin", n, NoBody), reach[n], FALSE) :
                    n \in Loads})
    ELSE B

\* React renders AdminDashboard after setIsAuthenticated changed the state,
\* at once or after further continuations have run, and commits: the
\* dashboard replaces AdminLogin, which is unmounted, or AdminLogin is
\* mounted anew in its place.  The effect on [isAuthenticated] is left to
\* run; an effect that an earlier render left runs before this render.
Render ==
    /\ RenderDue
    /\ ~dashboard.effect
    /\ dashboard' = [dashboard EXCEPT !.rendered = dashboard.isAuthenticated,
                                      !.effect = TRUE]
    /\ login' = LoginInit
    /\ pending' = IF dashboard.isAuthenticated THEN Unmounted(pending)
                  ELSE pending
    /\ ui_last' = UiStep("render")
    /\ UNCHANGED <<srvvars, now, same_origin, legacy, timers, auth_last,
                   cfg_last>>
    /\ UNCHANGED <<dbvars, facadevars>>

\* The effect on [isAuthenticated] runs after the render it belongs to has
\* been committed; clicks and continuations may have been handled between
\* the two.
Effect(reach) ==
    /\ dashboard.effect
    /\ dashboard' = [dashboard EXCEPT !.effect = FALSE]
    /\ pending' = AuthEffect(pending, dashboard.rendered, reach)
    /\ ui_last' = UiStep("effect")
    /\ UNCHANGED <<srvvars, now, same_origin, login, legacy, timers,
                   auth_last, cfg_last>>
    /\ UNCHANGED <<dbvars, facadevars>>

\* Mutant: any answer of the server is taken for a success.
ResponseAnswered(r) == r.kind = "http"

\* if (response.ok) in checkAuthStatus, handleSubmit, saveConfig
ResponseOk(r) == r.kind = "http" /\ r.ok

\* The page is (re)loaded: fresh component state, and checkAuthStatus() runs.
Reload(reach) ==
    /\ dashboard' = DashboardInit
    /\ login' = LoginInit
    /\ timers' = 0
    /\ pending' = Put(Left(pending, "admin"),
                      {Issued(Fetch("admin", "checkAuthStatus", NoBody),
                              reach, FALSE)})
    /\ ui_last' = UiStep("Reload")
    /\ UNCHANGED <<srvvars, now, same_origin, legacy, auth_last, cfg_last>>
    /\ UNCHANGED <<dbvars, facadevars>>

\* checkAuthStatus, after the fetch: if (response.ok) setIsAuthenticated(true)
CheckAuthStatusDone(q) ==
    LET r == q.resp
    IN  /\ q \in Answered("admin", "checkAuthStatus")
        /\ dashboard' = IF ResponseOk(r)
                        THEN [dashboard EXCEPT !.isAuthenticated = TRUE]
                        ELSE dashboard
        /\ pending' = Take(pending, q)
        /\ ui_last' = UiStep("checkAuthStatus")
        /\ UNCHANGED <<srvvars, now, same_origin, login, legacy, timers,
                       auth_last, cfg_last>>
        /\ UNCHANGED <<dbvars, facadevars>>

\* AdminLogin.handleSubmit up to the fetch.
HandleSubmit(user, pw, reach) ==
    LET q == Fetch("admin", "handleSubmit",
                   [NoBody EXCEPT !.user = user, !.pw = pw])
    IN  /\ ~DashboardShown
        /\ ~login.loading
        /\ Room(pending, "admin", "handleSubmit")
        /\ \A n \in Loads : LoadRoom(n)
        /\ login' = [error |-> "", loading |-> TRUE]
        /\ Sent(q, reach)
        /\ pending' = Put(pending, {Issued(q, reach, FALSE)})
        /\ ui_last' = UiStep("handleSubmit")
        /\ UNCHANGED <<now, same_origin, dashboard, legacy, timers>>
        /\ UNCHANGED <<dbvars, facadevars>>

\* Mutant: the server's error text is dropped.
LoginErrorGeneric(r) ==
    IF r.kind = "neterr" THEN ConnErrMsg ELSE LoginFailedMsg

\* if (response.ok) onLogin(true) else setError(data.error || 'Login failed')
LoginError(r) ==
    IF r.kind = "neterr" THEN ConnErrMsg ELSE OrElse(r.error, LoginFailedMsg)

\* What the fetch of handleSubmit came back with.
LoginOutcome(r) ==
    IF r.kind = "neterr" THEN "neterr" ELSE IF r.ok THEN "ok" ELSE r.error

\* AdminLogin.handleSubmit after the fetch.  onLogin(true) reaches the
\* dashboard whichever AdminLogin called it; setError and setLoading of an
\* AdminLogin that has been unmounted are dropped.
HandleSubmitDone(q) ==
    LET r == q.resp
    IN  /\ q \in Answered("admin", "handleSubmit")
        /\ dashboard' = IF ResponseOk(r)
                        THEN [dashboard EXCEPT !.isAuthenticated = TRUE]
                        ELSE dashboard
        /\ login' = IF q.owner # "mounted" THEN login
                    ELSE [error |-> IF ResponseOk(r) THEN login.error
                                    ELSE LoginError(r),
                          loading |-> FALSE]
        /\ pending' = Take(pending, q)
        /\ ui_last' = [op |-> IF q.owner = "mounted" THEN "handleSubmitDone"
                              ELSE "handleSubmitDropped",
                       arg |-> LoginOutcome(r)]
        /\ UNCHANGED <<srvvars, now, same_origin, legacy, timers, auth_last,
                       cfg_last>>
        /\ UNCHANGED <<dbvars, facadevars>>

\* handleLogout up to the fetch; the button is enabled whenever the
\* dashboard is shown.
HandleLogout(reach) ==
    LET q == Fetch("admin", "handleLogout", NoBody)
    IN  /\ DashboardShown
        /\ Room(pending, "admin", "handleLogout")
        /\ Sent(q, reach)
        /\ pending' = Put(pending, {Issued(q, reach, FALSE)})
        /\ ui_last' = IF reach = "now" THEN ServedStep(q)
                      ELSE UiStep("handleLogout")
        /\ UNCHANGED <<now, same_origin, dashboard, login, legacy, timers>>
        /\ UNCHANGED <<dbvars, facadevars>>

\* handleLogout after the fetch: setIsAuthenticated(false) unless it threw.
HandleLogoutDone(q) ==
    LET r == q.resp
    IN  /\ q \in Answered("admin", "handleLogout")
        /\ dashboard' = IF r.kind = "http"
                        THEN [dashboard EXCEPT !.isAuthenticated = FALSE]
                        ELSE dashboard
        /\ pending' = Take(pending, q)
        /\ ui_last' = [UiStep("handleLogoutDone") EXCEPT !.arg = r.kind]
        /\ UNCHANGED <<srvvars, now, same_origin, login, legacy, timers,
                       auth_last, cfg_last>>
        /\ UNCHANGED <<dbvars, facadevars>>

\* The Logout button of the dashboard open in another tab of the browser:
\* the same session credential is presented to POST /api/admin/logout.
LogoutElsewhere ==
    /\ session' = LogoutSession(session)
    /\ ui_last' = [op |-> "logoutElsewhere",
                   arg |-> IF LogoutResponse(session).ok THEN session
                           ELSE "refused"]
    /\ UNCHANGED <<api_key, acct, now, same_origin, dashboard, login, legacy,
                   pending, timers, auth_last, cfg_last>>
    /\ UNCHANGED <<dbvars, facadevars>>

\* onChange of the Claude API Key input
TypeClaudeKey(k) ==
    /\ DashboardShown
    /\ k # dashboard.config.claude_api_key
    /\ dashboard' = [dashboard EXCEPT !.config.claude_api_key = k]
    /\ ui_last' = UiStep("typeClaudeKey")
    /\ UNCHANGED <<srvvars, now, same_origin, login, legacy, pending, timers,
                   auth_last, cfg_last>>
    /\ UNCHANGED <<dbvars, facadevars>>

\* saveConfig up to the fetch.
SaveConfig(reach) ==
    LET q == Fetch("admin", "saveConfig",
                   [NoBody EXCEPT !.key = dashboard.config.claude_api_key,
                                  !.shown = DashboardShown])
    IN  /\ DashboardShown
        /\ ~dashboard.loading
        /\ timers < MaxTimers
        /\ Room(pending, "admin", "saveConfig")
        /\ LoadRoom("loadSystemStatus")
        /\ dashboard' = [dashboard EXCEPT !.loading = TRUE, !.message = ""]
        /\ Sent(q, reach)
        /\ pending' = Put(pending, {Issued(q, reach, FALSE)})
        /\ ui_last' = UiStep("saveConfig")
        /\ UNCHANGED <<now, same_origin, login, legacy, timers>>
        /\ UNCHANGED <<dbvars, facadevars>>

\* The message saveConfig shows for a response.
SaveMessage(r) ==
    IF r.kind = "neterr" THEN SaveFailedMsg
    ELSE IF ResponseOk(r) THEN SavedMsg
    ELSE OrElse(r.error, SaveFailedMsg)

\* How a fetch ended: 2xx, any other status, or a rejection.
Outcome(r) ==
    IF r.kind = "neterr" THEN "neterr" ELSE IF r.ok THEN "ok" ELSE "refused"

\* saveConfig after the fetch: the message, the timer that clears it, and
\* loadSystemStatus() after a success.
SaveConfigDone(q, reach) ==
    LET r == q.resp
    IN  /\ q \in Answered("admin", "saveConfig")
        /\ dashboard' = [dashboard EXCEPT !.message = SaveMessage(r),
                                          !.loading = FALSE]
        /\ timers' = IF ResponseOk(r) THEN timers + 1 ELSE timers
        /\ pending' =
               IF ResponseOk(r)
               THEN Put(Take(pending, q),
                        {Issued(Fetch("admin", "loadSystemStatus", NoBody),
                                reach, FALSE)})
               ELSE Take(pending, q)
        /\ ui_last' = [op |-> "saveConfigDone", arg |-> Outcome(r)]
        /\ UNCHANGED <<srvvars, now, same_origin, login, legacy, auth_last,
                       cfg_last>>
        /\ UNCHANGED <<dbvars, facadevars>>

\* setTimeout(() => setMessage(''), 3000)
MessageTimeout ==
    /\ timers > 0
    /\ timers' = timers - 1
    /\ dashboard' = [dashboard EXCEPT !.message = ""]
    /\ ui_last' = UiStep("messageTimeout")
    /\ UNCHANGED <<srvvars, now, same_origin, login, legacy, pending,
                   auth_last, cfg_last>>
    /\ UNCHANGED <<dbvars, facadevars>>

\* testClaudeConnection up to the fetch; the button is disabled while
\* loading and while the key field is empty.
TestClaudeConnection(reach, works) ==
    LET q == Fetch("admin", "testClaudeConnection", NoBody)
    IN  /\ DashboardShown
        /\ ~(dashboard.loading \/ dashboard.config.claude_api_key = "")
        /\ dashboard' = [dashboard EXCEPT !.loading = TRUE, !.message = ""]
        /\ pending' = Put(pending, {Issued(q, reach, works)})
        /\ ui_last' = UiStep("testClaudeConnection")
        /\ UNCHANGED <<srvvars, now, same_origin, login, legacy, timers,
                       auth_last, cfg_last>>
        /\ UNCHANGED <<dbvars, facadevars>>

\* `${data.message}` of a body that may lack the field
Text(m) == IF m = "" THEN Undefined ELSE m

\* The message testClaudeConnection shows for a response.
TestMessage(r) ==
    IF r.kind = "neterr" THEN FailMark \o TestThrewMsg
    ELSE IF ResponseOk(r) THEN OkMark \o Text(r.message)
    ELSE FailMark \o Text(r.message)

\* testClaudeConnection after the fetch.
TestClaudeConnectionDone(q) ==
    LET r == q.resp
    IN  /\ q \in Answered("admin", "testClaudeConnection")
        /\ dashboard' = [dashboard EXCEPT !.message = TestMessage(r),
                                          !.loading = FALSE]
        /\ pending' = Take(pending, q)
        /\ ui_last' = UiStep("testClaudeConnectionDone")
        /\ UNCHANGED <<srvvars, now, same_origin, login, legacy, timers,
                       auth_last, cfg_last>>
        /\ UNCHANGED <<dbvars, facadevars>>

\* loadConfig after the fetch: only admin_username is taken from the response.
LoadConfigResult(cfg, r) ==
    [cfg EXCEPT !.admin_username = OrElse(r.admin_username, "admin")]

LoadConfigDone(q) ==
    LET r == q.resp
    IN  /\ q \in Answered("admin", "loadConfig")
        /\ dashboard' = IF ResponseOk(r)
                        THEN [dashboard EXCEPT
                                 !.config = LoadConfigResult(dashboard.config, r)]
                        ELSE dashboard
        /\ pending' = Take(pending, q)
        /\ ui_last' = [op |-> IF ResponseOk(r) THEN "loadConfigDone"
                              ELSE "loadConfigRefused",
                       arg |-> dashboard.config.claude_api_key]
        /\ UNCHANGED <<srvvars, now, same_origin, login, legacy, timers,
                       auth_last, cfg_last>>
        /\ UNCHANGED <<dbvars, facadevars>>

\* onClick={loadSystemStatus} of the Refresh Status button
RefreshStatus(reach) ==
    /\ DashboardShown
    /\ LoadRoom("loadSystemStatus")
    /\ pending' = Put(pending,
                      {Issued(Fetch("admin", "loadSystemStatus", NoBody),
                              reach, FALSE)})
    /\ ui_last' = UiStep("refreshStatus")
    /\ UNCHANGED <<srvvars, now, same_origin, dashboard, login, legacy,
                   timers, auth_last, cfg_last>>
    /\ UNCHANGED <<dbvars, facadevars>>

\* loadSystemStatus and loadStats after the fetch: if (response.ok) the
\* data is shown; any other answer, and a fetch that threw, changes nothing
\* on the page.
LoadSystemStatusDone(q) ==
    LET r == q.resp
    IN  /\ q \in Answered("admin", "loadSystemStatus")
        /\ dashboard' = IF ResponseOk(r)
                        THEN [dashboard EXCEPT !.systemStatus = "loaded"]
                        ELSE dashboard
        /\ pending' = Take(pending, q)
        /\ ui_last' = [op |-> "loadSystemStatusDone", arg |-> Outcome(r)]
        /\ UNCHANGED <<srvvars, now, same_origin, login, legacy, timers,
                       auth_last, cfg_last>>
        /\ UNCHANGED <<dbvars, facadevars>>

LoadStatsDone(q) ==
    LET r == q.resp
    IN  /\ q \in Answered("admin", "loadStats")
        /\ dashboard' = IF ResponseOk(r)
                        THEN [dashboard EXCEPT !.stats = "loaded"]
                        ELSE dashboard
        /\ pending' = Take(pending, q)
        /\ ui_last' = [op |-> "loadStatsDone", arg |-> Outcome(r)]
        /\ UNCHANGED <<srvvars, now, same_origin, login, legacy, timers,
                       auth_last, cfg_last>>
        /\ UNCHANGED <<dbvars, facadevars>>

\* ------------------------------------------------- legacy AdminDashboard

\* What the legacy page's mount effect calls.
LegacyLoads == {"loadConfiguration", "loadSystemStatus", "loadStats"}

\* The legacy page is (re)loaded: fresh state, and loadConfiguration(),
\* loadSystemStatus() and loadStats() run.
LegacyReload(reach) ==
    /\ legacy' = LegacyInit
    /\ pending' = Put(Left(pending, "legacy"),
                      {Issued(Fetch("legacy", n, NoBody), reach[n], FALSE) :
                          n \in LegacyLoads})
    /\ ui_last' = UiStep("LegacyReload")
    /\ UNCHANGED <<srvvars, now, same_origin, dashboard, login, timers,
                   auth_last, cfg_last>>
    /\ UNCHANGED <<dbvars, facadevars>>

\* Mutant: setApiKey(data.claude_api_key)
LoadedApiKeyRaw(r) == r.claude_api_key

\* setApiKey(data.claude_api_key ? mask : '')
LoadedApiKey(r) == IF r.claude_api_key # "" THEN Mask ELSE ""

LoadConfigurationDone(q) ==
    LET r == q.resp
    IN  /\ q \in Answered("legacy", "loadConfiguration")
        /\ legacy' = IF ResponseOk(r)
                     THEN [legacy EXCEPT !.apiKey = LoadedApiKey(r)]
                     ELSE legacy
        /\ pending' = Take(pending, q)
        /\ ui_last' = [op |-> IF ResponseOk(r) THEN "loadConfigurationDone"
                              ELSE "loadConfigurationRefused",
                       arg |-> legacy.apiKey]
        /\ UNCHANGED <<srvvars, now, same_origin, dashboard, login, timers,
                       auth_last, cfg_last>>
        /\ UNCHANGED <<dbvars, facadevars>>

\* The legacy loadSystemStatus after the fetch: the data of a 2xx answer is
\* shown, and a fetch that threw shows the error state.
LegacySystemStatus(status, r) ==
    IF r.kind = "neterr" THEN "error"
    ELSE IF ResponseOk(r) THEN "loaded" ELSE status

LegacyLoadSystemStatusDone(q) ==
    LET r == q.resp
    IN  /\ q \in Answered("legacy", "loadSystemStatus")
        /\ legacy' = [legacy EXCEPT
                         !.systemStatus = LegacySystemStatus(@, r)]
        /\ pending' = Take(pending, q)
        /\ ui_last' = UiStep("loadSystemStatusDone")
        /\ UNCHANGED <<srvvars, now, same_origin, dashboard, login, timers,
                       auth_last, cfg_last>>
        /\ UNCHANGED <<dbvars, facadevars>>

LegacyLoadStatsDone(q) ==
    LET r == q.resp
    IN  /\ q \in Answered("legacy", "loadStats")
        /\ legacy' = IF ResponseOk(r) THEN [legacy EXCEPT !.stats = "loaded"]
                     ELSE legacy
        /\ pending' = Take(pending, q)
        /\ ui_last' = UiStep("loadStatsDone")
        /\ UNCHANGED <<srvvars, now, same_origin, dashboard, login, timers,
                       auth_last, cfg_last>>
        /\ UNCHANGED <<dbvars, facadevars>>

\* onClick of the legacy Refresh button: loadSystemStatus(); loadStats()
RefreshLoads == {"loadSystemStatus", "loadStats"}
LegacyRefresh(reach) ==
    /\ LegacyStatusRoom
    /\ Room(pending, "legacy", "loadStats")
    /\ pending' = Put(pending,
                      {Issued(Fetch("legacy", n, NoBody), reach[n], FALSE) :
                          n \in RefreshLoads})
    /\ ui_last' = UiStep("legacyRefresh")
    /\ UNCHANGED <<srvvars, now, same_origin, dashboard, login, legacy,
                   timers, auth_last, cfg_last>>
    /\ UNCHANGED <<dbvars, facadevars>>

\* onChange of the legacy API key input
SetApiKey(k) ==
    /\ k # legacy.apiKey
    /\ legacy' = [legacy EXCEPT !.apiKey = k]
    /\ ui_last' = UiStep("setApiKey")
    /\ UNCHANGED <<srvvars, now, same_origin, dashboard, login, pending,
                   timers, auth_last, cfg_last>>
    /\ UNCHANGED <<dbvars, facadevars>>

\* onClick={() => setShowApiKey(!showApiKey)}
ToggleShowApiKey ==
    /\ legacy' = [legacy EXCEPT !.showApiKey = ~legacy.showApiKey]
    /\ ui_last' = UiStep("toggleShowApiKey")
    /\ UNCHANGED <<srvvars, now, same_origin, dashboard, login, pending,
                   timers, auth_last, cfg_last>>
    /\ UNCHANGED <<dbvars, facadevars>>

\* Mutant: only an empty field is turned away.
NothingToSaveEmptyOnly(k) == k = ""

\* if (!apiKey || apiKey === mask): nothing is sent.
NothingToSave(k) == k = "" \/ k = Mask

\* saveConfiguration up to the fetch.
SaveConfiguration(reach) ==
    LET q == Fetch("legacy", "saveConfiguration",
                   [NoBody EXCEPT !.key = legacy.apiKey, !.shown = TRUE])
    IN  /\ ~legacy.isLoading
        /\ IF NothingToSave(legacy.apiKey)
           THEN /\ legacy' = [legacy EXCEPT
                                 !.message = Val([type |-> "error",
                                                  text |-> EnterKeyMsg])]
                /\ ui_last' = UiStep("saveConfigurationRejected")
                /\ UNCHANGED <<srvvars, auth_last, cfg_last, pending>>
           ELSE /\ Room(pending, "legacy", "saveConfiguration")
                /\ LegacyStatusRoom
                /\ legacy' = [legacy EXCEPT !.isLoading = TRUE,
                                            !.message = Null]
                /\ ui_last' = UiStep("saveConfiguration")
                /\ Sent(q, reach)
                /\ pending' = Put(pending, {Issued(q, reach, FALSE)})
        /\ UNCHANGED <<now, same_origin, dashboard, login, timers>>
        /\ UNCHANGED <<dbvars, facadevars>>

\* The message the legacy saveConfiguration shows for a response.
LegacySaveMessage(r) ==
    IF r.kind = "neterr" THEN [type |-> "error", text |-> NoServerMsg]
    ELSE IF ResponseOk(r) THEN [type |-> "success", text |-> SavedMsg]
    ELSE [type |-> "error", text |-> OrElse(r.message, SaveFailedMsg)]

\* saveConfiguration after the fetch: a success puts the mask into the
\* field and calls loadSystemStatus().
SaveConfigurationDone(q, reach) ==
    LET r == q.resp
    IN  /\ q \in Answered("legacy", "saveConfiguration")
        /\ legacy' =
             IF ResponseOk(r)
             THEN [legacy EXCEPT !.message = Val(LegacySaveMessage(r)),
                                 !.apiKey = Mask,
                                 !.showApiKey = FALSE,
                                 !.isLoading = FALSE]
             ELSE [legacy EXCEPT !.message = Val(LegacySaveMessage(r)),
                                 !.isLoading = FALSE]
        /\ pending' =
               IF ResponseOk(r)
               THEN Put(Take(pending, q),
                        {Issued(Fetch("legacy", "loadSystemStatus", NoBody),
                                reach, FALSE)})
               ELSE Take(pending, q)
        /\ ui_last' = [op |-> "saveConfigurationDone", arg |-> Outcome(r)]
        /\ UNCHANGED <<srvvars, now, same_origin, dashboard, login, timers,
                       auth_last, cfg_last>>
        /\ UNCHANGED <<dbvars, facadevars>>

\* testApiConnection up to the fetch.
TestApiConnection(reach, works) ==
    LET q == Fetch("legacy", "testApiConnection", NoBody)
    IN  /\ ~legacy.isTesting
        /\ LegacyStatusRoom
        /\ legacy' = [legacy EXCEPT !.isTesting = TRUE, !.message = Null]
        /\ pending' = Put(pending, {Issued(q, reach, works)})
        /\ ui_last' = UiStep("testApiConnection")
        /\ UNCHANGED <<srvvars, now, same_origin, dashboard, login, timers,
                       auth_last, cfg_last>>
        /\ UNCHANGED <<dbvars, facadevars>>

\* The message testApiConnection shows for a response.
LegacyTestMessage(r) ==
    IF r.kind = "neterr" THEN [type |-> "error", text |-> LegacyTestThrewMsg]
    ELSE IF ResponseOk(r) THEN [type |-> "success", text |-> LegacyTestOkMsg]
    ELSE [type |-> "error", text |-> OrElse(r.message, LegacyTestFailedMsg)]

\* testApiConnection after the fetch; a success calls loadSystemStatus().
TestApiConnectionDone(q, reach) ==
    LET r == q.resp
    IN  /\ q \in Answered("legacy", "testApiConnection")
        /\ legacy' = [legacy EXCEPT !.message = Val(LegacyTestMessage(r)),
                                    !.isTesting = FALSE]
        /\ pending' =
               IF ResponseOk(r)
               THEN Put(Take(pending, q),
                        {Issued(Fetch("legacy", "loadSystemStatus", NoBody),
                                reach, FALSE)})
               ELSE Take(pending, q)
        /\ ui_last' = UiStep("testApiConnectionDone")
        /\ UNCHANGED <<srvvars, now, same_origin, dashboard, login, timers,
                       auth_last, cfg_last>>
        /\ UNCHANGED <<dbvars, facadevars>>

\* Time passes.
Tick ==
    /\ now < MaxTime
    /\ now' = now + 1
    /\ UNCHANGED <<srvvars, same_origin, dashboard, login, legacy, pending,
                   timers, auth_last, cfg_last, ui_last>>
    /\ UNCHANGED <<dbvars, facadevars>>

\* Every step of the two pages and of the server behind them.
AdmNext ==
    \/ \E reach \in Reach : Reload(reach)
    \/ \E q \in BagToSet(pending) : CheckAuthStatusDone(q)
    \/ Render
    \/ \E reach \in [Loads -> Reach] : Effect(reach)
    \/ \E u \in Usernames, pw \in Passwords, reach \in Reach :
           HandleSubmit(u, pw, reach)
    \/ \E q \in BagToSet(pending) : HandleSubmitDone(q)
    \/ \E reach \in Reach : HandleLogout(reach)
    \/ \E q \in BagToSet(pending) : HandleLogoutDone(q)
    \/ LogoutElsewhere
    \/ \E k \in Keys \cup {""} : TypeClaudeKey(k)
    \/ \E reach \in Reach : SaveConfig(reach)
    \/ \E q \in BagToSet(pending), reach \in Reach : SaveConfigDone(q, reach)
    \/ MessageTimeout
    \/ \E reach \in Reach, works \in BOOLEAN :
           TestClaudeConnection(reach, works)
    \/ \E q \in BagToSet(pending) : TestClaudeConnectionDone(q)
    \/ \E reach \in Reach : RefreshStatus(reach)
    \/ \E q \in BagToSet(pending) :
           LoadConfigDone(q) \/ LoadSystemStatusDone(q) \/ LoadStatsDone(q)
    \/ \E reach \in [LegacyLoads -> Reach] : LegacyReload(reach)
    \/ \E q \in BagToSet(pending) :
           \/ LoadConfigurationDone(q)
           \/ LegacyLoadSystemStatusDone(q)
           \/ LegacyLoadStatsDone(q)
    \/ \E reach \in [RefreshLoads -> Reach] : LegacyRefresh(reach)
    \/ \E k \in Keys \cup {"", Mask} : SetApiKey(k)
    \/ ToggleShowApiKey
    \/ \E reach \in Reach : SaveConfiguration(reach)
    \/ \E q \in BagToSet(pending), reach \in Reach :
           SaveConfigurationDone(q, reach)
    \/ \E reach \in Reach, works \in BOOLEAN : TestApiConnection(reach, works)
    \/ \E q \in BagToSet(pending), reach \in Reach :
           TestApiConnectionDone(q, reach)
    \/ \E q \in BagToSet(pending), works \in BOOLEAN : Serve(q, works)
    \/ \E q \in BagToSet(pending) : Fail(q)
    \/ Tick

\* Every request of a step fares alike.
All(names, reach) == [n \in names |-> reach]

\* Of what a page loads first, only the configuration is answered.
ConfigOnly(names) ==
    [n \in names |-> IF n \in {"loadConfig", "loadConfiguration"} THEN "now"
                     ELSE "later"]

\* The requests a specification lets the server answer or the network lose.
ServeOf(page, names) ==
    \E q \in BagToSet(pending), works \in BOOLEAN :
        q.page = page /\ q.name \in names /\ Serve(q, works)
FailOf(page, names) ==
    \E q \in BagToSet(pending) : q.page = page /\ q.name \in names /\ Fail(q)

\* The admin gate and its lockout: logins under every pair of credentials
\* as time passes, a login that is lost, the session ended from another
\* tab and the page loaded again to log in again.  Logins are answered at
\* once; what the dashboard loads after a login stays on its way.
AuthNext ==
    \/ Reload("now")
    \/ \E q \in BagToSet(pending) : CheckAuthStatusDone(q)
    \/ \E u \in Usernames, pw \in Passwords : HandleSubmit(u, pw, "now")
    \/ HandleSubmit(AdminUser, AdminPassword, "never")
    \/ \E q \in BagToSet(pending) : HandleSubmitDone(q)
    \/ Render
    \/ Effect(All(Loads, "later"))
    \/ LogoutElsewhere
    \/ Tick

SpecAuth == SecondCopyInit /\ [][AuthNext]_vars

\* Logging out: the Logout button clicked once or several times, with the
\* requests answered at once, one by one later, or lost; a logout from
\* another tab; and logging in again.
LogoutNext ==
    \/ Reload("now")
    \/ \E q \in BagToSet(pending) : CheckAuthStatusDone(q)
    \/ \E reach \in {"now", "never"} :
           HandleSubmit(AdminUser, AdminPassword, reach)
    \/ \E q \in BagToSet(pending) : HandleSubmitDone(q)
    \/ Render
    \/ Effect(All(Loads, "later"))
    \/ \E reach \in Reach : HandleLogout(reach)
    \/ ServeOf("admin", {"handleLogout"})
    \/ FailOf("admin", {"handleLogout"})
    \/ \E q \in BagToSet(pending) : HandleLogoutDone(q)
    \/ LogoutElsewhere

SpecLogout == SecondCopyInit /\ [][LogoutNext]_vars

\* Writes to the configuration store from both dashboards; the
\* administrator logs in with the right password, the session is ended
\* from another tab and the page is loaded again.  Logins and the writes
\* are answered at once; the requests for status and statistics stay on
\* their way.
ConfigNext ==
    \/ Reload("now")
    \/ \E q \in BagToSet(pending) : CheckAuthStatusDone(q)
    \/ HandleSubmit(AdminUser, AdminPassword, "now")
    \/ \E q \in BagToSet(pending) : HandleSubmitDone(q)
    \/ Render
    \/ Effect(ConfigOnly(Loads))
    \/ LogoutElsewhere
    \/ \E k \in Keys \cup {""} : TypeClaudeKey(k)
    \/ SaveConfig("now")
    \/ \E q \in BagToSet(pending) : SaveConfigDone(q, "later")
    \/ MessageTimeout
    \/ \E q \in BagToSet(pending) : LoadConfigDone(q)
    \/ \E k \in Keys : SetApiKey(k)
    \/ SaveConfiguration("now")
    \/ \E q \in BagToSet(pending) : SaveConfigurationDone(q, "later")

SpecConfig == SecondCopyInit /\ [][ConfigNext]_vars

\* Reads of the configuration by both dashboards, with the key set from the
\* newer one and the session ended from another tab.
ConfigReadNext ==
    \/ HandleSubmit(AdminUser, AdminPassword, "now")
    \/ \E q \in BagToSet(pending) : HandleSubmitDone(q)
    \/ Render
    \/ Effect(ConfigOnly(Loads))
    \/ LogoutElsewhere
    \/ \E q \in BagToSet(pending) : LoadConfigDone(q)
    \/ \E k \in Keys \cup {""} : TypeClaudeKey(k)
    \/ SaveConfig("now")
    \/ \E q \in BagToSet(pending) : SaveConfigDone(q, "later")
    \/ MessageTimeout
    \/ LegacyReload(ConfigOnly(LegacyLoads))
    \/ \E q \in BagToSet(pending) : LoadConfigurationDone(q)
    \/ \E k \in Keys \cup {""} : SetApiKey(k)

SpecConfigRead == SecondCopyInit /\ [][ConfigReadNext]_vars

\* The dashboard after login: its loads, the buttons of its tabs, and the
\* session ending in another tab while requests are on their way.
DashboardNext ==
    \/ Reload("now")
    \/ \E q \in BagToSet(pending) : CheckAuthStatusDone(q)
    \/ HandleSubmit(AdminUser, AdminPassword, "now")
    \/ \E q \in BagToSet(pending) : HandleSubmitDone(q)
    \/ Render
    \/ Effect(All(Loads, "later"))
    \/ LogoutElsewhere
    \/ ServeOf("admin", Loads \cup {"testClaudeConnection"})
    \/ \E q \in BagToSet(pending) :
           LoadConfigDone(q) \/ LoadSystemStatusDone(q) \/ LoadStatsDone(q)
    \/ RefreshStatus("later")
    \/ \E k \in Keys : TypeClaudeKey(k)
    \/ \E reach \in {"now", "never"} : SaveConfig(reach)
    \/ \E q \in BagToSet(pending) : SaveConfigDone(q, "later")
    \/ MessageTimeout
    \/ TestClaudeConnection("later", TRUE)
    \/ \E q \in BagToSet(pending) : TestClaudeConnectionDone(q)

SpecDashboard == ServedInit /\ [][DashboardNext]_vars

\* The legacy dashboard, with the administrator logged in or not in the
\* same browser.  What the page loads first, its saves and its tests are
\* answered at once; a save may be lost, the status request after a save
\* is lost, and those of the Refresh button and after a test stay on
\* their way.
LegacyNext ==
    \/ HandleSubmit(AdminUser, AdminPassword, "now")
    \/ LogoutElsewhere
    \/ LegacyReload(All(LegacyLoads, "now"))
    \/ \E q \in BagToSet(pending) :
           \/ LoadConfigurationDone(q)
           \/ LegacyLoadSystemStatusDone(q)
           \/ LegacyLoadStatsDone(q)
    \/ LegacyRefresh(All(RefreshLoads, "later"))
    \/ \E k \in Keys \cup {"", Mask} : SetApiKey(k)
    \/ ToggleShowApiKey
    \/ \E reach \in {"now", "never"} : SaveConfiguration(reach)
    \/ \E q \in BagToSet(pending) : SaveConfigurationDone(q, "never")
    \/ TestApiConnection("now", TRUE)
    \/ \E q \in BagToSet(pending) : TestApiConnectionDone(q, "later")

SpecLegacy == SecondCopyInit /\ [][LegacyNext]_vars

\* ------------------------------------------------------ analysis actions

\* INSERT INTO query_logs by the facade, in autocommit: the row, and the
\* trigger that runs inside the statement.
LogAnalysis(row) ==
    /\ \E new \in {row} :
           /\ query_logs' = query_logs \cup {new}
           /\ usage_stats' =
                  update_usage_stats_after_query(query_logs, usage_stats, new)
           /\ log_seq' = new.id
    /\ UNCHANGED <<writer, conn, journal, inserted_by, db_last>>

\* A request on its way to the facade.
SentCall(product, q, overlap) ==
    [NoCall EXCEPT !.stage = "sent", !.product = product, !.query = q,
                   !.overlap = overlap]

\* Another caller's request is under way at the facade.
InFlight(c) == \E o \in Callers \ {c} : calls[o].stage \in {"sent", "ai"}

\* onClick of a product card: both copies of App select the product, and
\* the second copy also clears the error and the analysis that are shown.
SelectProduct(p) ==
    /\ app' = IF app_copy = "part_002"
              THEN [app EXCEPT !.selectedProduct = p, !.error = Null,
                               !.response = Null]
              ELSE [app EXCEPT !.selectedProduct = p]
    /\ UNCHANGED <<calls, sent_count, ai_calls, app_copy>>
    /\ UNCHANGED <<dbvars, admvars, cachevars, fbvars>>

\* onChange of the textarea, which is rendered once a product is selected:
\* setQuery(e.target.value), whatever the value.
SetQuery(q) ==
    /\ app.selectedProduct # ""
    /\ app' = [app EXCEPT !.query = q]
    /\ UNCHANGED <<calls, sent_count, ai_calls, app_copy>>
    /\ UNCHANGED <<dbvars, admvars, cachevars, fbvars>>

\* Mutant: the textarea has no maxLength.
MaxLengthNone(typed) == typed

\* maxLength={2000}: of what the user types or pastes into the textarea the
\* browser keeps no more than maxLength characters.
MaxLengthText(typed) ==
    SubSeq(typed, 1, IF Len(typed) < TextareaMaxLength THEN Len(typed)
                     ELSE TextareaMaxLength)

\* The user edits the textarea: the browser fires onChange with the value
\* the textarea then has.
TypeQuery(typed) == SetQuery(MaxLengthText(typed))

\* handleExampleClick: a Quick Example of the selected product is put into
\* the textarea.
HandleExampleClick(example) ==
    /\ app.selectedProduct # ""
    /\ app' = [app EXCEPT !.query = example]
    /\ UNCHANGED <<calls, sent_count, ai_calls, app_copy>>
    /\ UNCHANGED <<dbvars, admvars, cachevars, fbvars>>

\* Mutant: the button is disabled only for an empty description.
CanSubmitWhileLoading ==
    /\ app.selectedProduct # ""
    /\ ~(Trim(app.query) = <<>>)

\* The Analyze Bug button is rendered and enabled.
CanSubmit ==
    /\ app.selectedProduct # ""
    /\ ~(app.isLoading \/ Trim(app.query) = <<>>)

\* Mutant: the response on display is kept while the next request runs.
SubmittingKeepResponse(a) == [a EXCEPT !.isLoading = TRUE, !.error = Null]

\* setIsLoading(true); setError(null); setResponse(null)
Submitting(a) ==
    [a EXCEPT !.isLoading = TRUE, !.error = Null, !.response = Null]

\* JSON.stringify({ query: query.trim(), product: selectedProduct })
RequestBody(product, q) == [product |-> product, query |-> Trim(q)]

\* App.handleSubmit up to the fetch, which reaches the facade or rejects
\* with an error of message text.
AppHandleSubmit(reached, text) ==
    /\ CanSubmit
    /\ sent_count < MaxRequests
    /\ IF app.selectedProduct = "" \/ Trim(app.query) = <<>>
       THEN /\ app' = [app EXCEPT !.error = Val(SelectAndDescribeMsg)]
            /\ UNCHANGED <<calls, sent_count>>
       ELSE /\ app' = Submitting(app)
            /\ LET body == RequestBody(app.selectedProduct, app.query)
                   call == SentCall(body.product, body.query, InFlight("app"))
               IN  calls' = [calls EXCEPT !["app"] =
                       IF reached THEN call
                       ELSE [call EXCEPT !.stage = "answered",
                                         !.resp = FetchFailed(text)]]
            /\ sent_count' = sent_count + 1
    /\ UNCHANGED <<ai_calls, app_copy>>
    /\ UNCHANGED <<dbvars, admvars, cachevars, fbvars>>

\* Mutant: isLoading is reset only when the analysis succeeded.
IsLoadingAfterSuccessOnly(succeeded) == ~succeeded

\* finally { setIsLoading(false) }
IsLoadingAfter(succeeded) == FALSE

\* The error App shows for a response that is not ok, or for a fetch that
\* threw: err.message || 'Failed to connect ...'.
AppError(r) ==
    IF r.kind = "neterr"
    THEN OrElse(r.message, NoBackendMsg)
    ELSE OrElse(OrElse(r.message, AnalyzeFailedMsg), NoBackendMsg)

\* The parsed body of a 200 response.
AppData(r) ==
    [solution |-> r.solution, response_time_ms |-> r.response_time_ms,
     confidence |-> r.confidence]

\* App.handleSubmit after the fetch.
AppHandleSubmitDone ==
    LET r == calls["app"].resp
        succeeded == r.kind = "http" /\ r.ok
    IN  /\ calls["app"].stage = "answered"
        /\ app' = IF succeeded
                  THEN [app EXCEPT !.response = Val(AppData(r)),
                                   !.isLoading = IsLoadingAfter(succeeded)]
                  ELSE [app EXCEPT !.error = Val(AppError(r)),
                                   !.isLoading = IsLoadingAfter(succeeded)]
        /\ calls' = [calls EXCEPT !["app"].stage = "done"]
        /\ UNCHANGED <<sent_count, ai_calls, app_copy>>
        /\ UNCHANGED <<dbvars, admvars, cachevars, fbvars>>

\* Another client posts {query, product} to /api/analyze.
DirectPost(c, body) ==
    /\ calls[c].stage \in {"idle", "answered"}
    /\ sent_count < MaxRequests
    /\ calls' = [calls EXCEPT ![c] =
                    SentCall(body.product, body.query, InFlight(c))]
    /\ sent_count' = sent_count + 1
    /\ UNCHANGED <<app, ai_calls, app_copy>>
    /\ UNCHANGED <<dbvars, admvars, cachevars, fbvars>>

\* History: what the cache held for the request's key when it arrived.
KeyRows(cache, product, q) ==
    {row \in cache : /\ row.query_hash[1] = product
                     /\ Fold(Trim(row.query_hash[2])) = Fold(Trim(q))}
Expired(row, t) == ~IsNull(row.expires_at) /\ t >= Get(row.expires_at)

\* analyze up to the external call: validation, then the cache lookup.  A
\* hit is counted, logged and answered at once (response_time_ms 0 ticks); a
\* miss goes to the AI boundary, and the time of the call is measured.
AnalyzeReceive(c) ==
    LET r == calls[c]
        key == QueryHash(r.product, r.query)
        found == CacheLookup(response_cache, key, now)
        before == KeyRows(response_cache, r.product, r.query)
        seen == [r EXCEPT
                    !.empty_before = response_cache = {},
                    !.fresh_before = \E row \in before : ~Expired(row, now),
                    !.expired_before = \E row \in before : Expired(row, now)]
    IN  /\ r.stage = "sent"
        /\ writer = "none"
        /\ IF ~ValidRequest(r.product, r.query)
           THEN /\ calls' = [calls EXCEPT ![c] =
                       [seen EXCEPT !.stage = "answered",
                                    !.resp = InvalidRequest400]]
                /\ UNCHANGED <<dbvars, cachevars, ai_calls, app_copy>>
           ELSE IF found # {}
           THEN LET row == CHOOSE x \in found : TRUE
                    log == AnalysisLogRow(log_seq, now, r.product, r.query,
                                          0, 1, Null)
                IN  /\ response_cache' = CacheHit(response_cache, row)
                    /\ LogAnalysis(log)
                    /\ calls' = [calls EXCEPT ![c] =
                           [seen EXCEPT
                               !.stage = "answered", !.hit = TRUE,
                               !.logs = 1, !.log_id = log.id,
                               !.resp = Analysis200(row.response_text,
                                                    row.confidence, 0)]]
                    /\ UNCHANGED <<cache_seq, cache_last, ai_calls,
                                   app_copy>>
           ELSE /\ calls' = [calls EXCEPT ![c] =
                       [seen EXCEPT !.stage = "ai", !.ai = 1,
                                    !.started = now]]
                /\ ai_calls' = ai_calls + 1
                /\ UNCHANGED app_copy
                /\ UNCHANGED <<dbvars, cachevars>>
        /\ UNCHANGED <<app, sent_count>>
        /\ UNCHANGED <<admvars, fbvars>>

\* The external AI call came back with an analysis: it is stored in the
\* cache, logged and returned.
AiSucceed(c, result) ==
    LET r == calls[c]
        key == QueryHash(r.product, r.query)
        row == CacheRow(cache_seq, response_cache, key, r.product, result, now)
        ms == now - r.started
        log == AnalysisLogRow(log_seq, now, r.product, r.query, ms, 1, Null)
    IN  /\ r.stage = "ai"
        /\ writer = "none"
        /\ response_cache' =
               CacheStore(cache_seq, response_cache, key, r.product, result, now)
        /\ cache_seq' = IF row.id > cache_seq THEN row.id ELSE cache_seq
        /\ UNCHANGED cache_last
        /\ LogAnalysis(log)
        /\ calls' = [calls EXCEPT ![c] =
               [r EXCEPT !.stage = "answered", !.stores = 1, !.logs = 1,
                         !.log_id = log.id, !.started = 0,
                         !.resp = Analysis200(result.text, result.confidence,
                                              ms)]]
        /\ UNCHANGED <<app, sent_count, ai_calls, app_copy>>
        /\ UNCHANGED <<admvars, fbvars>>

\* The external AI call failed: logged with the reason, answered with the
\* generic message.
AiFail(c, failure) ==
    LET r == calls[c]
        ms == now - r.started
        log == AnalysisLogRow(log_seq, now, r.product, r.query, ms, 0,
                              Val(FailureReason(failure)))
    IN  /\ r.stage = "ai"
        /\ writer = "none"
        /\ LogAnalysis(log)
        /\ calls' = [calls EXCEPT ![c] =
               [r EXCEPT !.stage = "answered", !.logs = 1, !.log_id = log.id,
                         !.failure = Val(failure), !.started = 0,
                         !.resp = UpstreamFailure500(failure)]]
        /\ UNCHANGED <<app, sent_count, ai_calls, app_copy>>
        /\ UNCHANGED <<admvars, cachevars, fbvars>>

\* The timeout that bounds the external AI call ran out.
TimedOut == [kind |-> "timeout", text |-> "timed out"]
AiTimeout(c) == AiFail(c, TimedOut)

\* store(product, query, text, confidence, ttl) of the Response Cache, a
\* write in autocommit.
Store(c, product, q, result) ==
    LET key == QueryHash(product, q)
        row == CacheRow(cache_seq, response_cache, key, product, result, now)
    IN  /\ writer = "none"
        /\ cache_seq < MaxStores
        /\ response_cache' =
               CacheStore(cache_seq, response_cache, key, product, result, now)
        /\ cache_seq' = IF row.id > cache_seq THEN row.id ELSE cache_seq
        /\ cache_last' = [op |-> "store", by |-> c, product |-> product,
                          query |-> q, text |-> Val(result.text)]
        /\ UNCHANGED <<dbvars, admvars, anavars, fbvars>>

\* lookup(product, query) of the Response Cache: the valid row of the key
\* is counted and returned; anything else is a miss.  Counting the hit is a
\* write in autocommit.
Lookup(c, product, q) ==
    LET found == CacheLookup(response_cache, QueryHash(product, q), now)
    IN  /\ found # {} => writer = "none"
        /\ \A row \in found : row.hit_count < MaxHits
        /\ IF found # {}
           THEN LET row == CHOOSE x \in found : TRUE
                IN  /\ response_cache' = CacheHit(response_cache, row)
                    /\ cache_last' =
                           [op |-> "hit", by |-> c, product |-> product,
                            query |-> q, text |-> Val(row.response_text)]
           ELSE /\ cache_last' =
                       [op |-> "miss", by |-> c, product |-> product,
                        query |-> q, text |-> Null]
                /\ UNCHANGED response_cache
        /\ UNCHANGED cache_seq
        /\ UNCHANGED <<dbvars, admvars, anavars, fbvars>>

\* UPDATE response_cache SET ... WHERE id = ? in autocommit: the hit's
\* hit_count = hit_count + 1 when raise, an update of another column
\* otherwise; and the trigger, with PRAGMA recursive_triggers as the
\* connection has it.  While a connection holds the write lock the
\* statement is refused ("database is locked") and nothing changes.
CacheUpdate(id, raise, recursive) ==
    /\ writer = "none"
    /\ \E old \in response_cache :
           /\ old.id = id
           /\ old.hit_count < MaxHits
           /\ LET new == IF raise THEN [old EXCEPT !.hit_count = @ + 1]
                          ELSE old
                  ran == UpdateTrigger((response_cache \ {old}) \cup {new},
                                       old, new, recursive, 0)
              IN  /\ response_cache' = ran.cache
                  /\ cache_last' =
                         [op |-> "update", by |-> "", product |-> old.product,
                          query |-> <<>>, text |-> Null, updated |-> new,
                          fired |-> ran.fired, raise |-> raise,
                          recursive |-> recursive]
    /\ UNCHANGED cache_seq
    /\ UNCHANGED <<dbvars, admvars, anavars, fbvars>>

\* Updates of cached rows under both settings of recursive triggers.
TriggerNext ==
    \/ \E p \in UiProducts, result \in AiResults :
           Store("direct", p, <<"a">>, result)
    \/ \E id \in 1..MaxStores, raise \in BOOLEAN, recursive \in BOOLEAN :
           CacheUpdate(id, raise, recursive)

SpecTrigger == ServedInit /\ [][TriggerNext]_vars

\* The Response Cache on its own: stores and lookups of two clients under
\* differently written queries, and the passing of time.
CacheQueries == {<<"A">>, <<" ", "a">>}
CacheNext ==
    \/ \E c \in Clients, p \in UiProducts, q \in CacheQueries,
          result \in AiResults : Store(c, p, q, result)
    \/ \E c \in Clients, p \in UiProducts, q \in CacheQueries :
           Lookup(c, p, q)
    \/ Tick

SpecCache == ServedInit /\ [][CacheNext]_vars

\* The facade and its cache under two clients: valid and invalid requests,
\* differently written queries, concurrent requests, and every way the
\* external AI call can end: an analysis, a non-2xx answer, malformed
\* content, the timeout.  Time passes between the requests, so that a
\* stored row may have expired when the next request arrives.
FacadeNext ==
    \/ \E body \in DirectBodies : DirectPost("direct", body)
    \/ \E body \in OtherBodies : DirectPost("other", body)
    \/ \E c \in Clients : AnalyzeReceive(c)
    \/ \E c \in Clients :
           AiSucceed(c, [text |-> "## Root Cause 1", confidence |-> Val(90)])
    \/ \E c \in Clients :
           \/ AiFail(c, [kind |-> "non2xx", text |-> "529 overloaded"])
           \/ AiFail(c, [kind |-> "malformed",
                         text |-> "no text block in content"])
    \/ \E c \in Clients : AiTimeout(c)
    \/ (\A c \in Clients : calls[c].stage \in {"idle", "answered"}) /\ Tick

SpecFacade == ServedInit /\ [][FacadeNext]_vars

\* App in front of the facade: what the user does, and every way the
\* request can end.
AppNext ==
    \/ \E p \in UiProducts : SelectProduct(p)
    \/ \E typed \in UiQueries : TypeQuery(typed)
    \/ \E example \in UiExamples : HandleExampleClick(example)
    \/ AppHandleSubmit(TRUE, "")
    \/ \E text \in RejectionTexts : AppHandleSubmit(FALSE, text)
    \/ AppHandleSubmitDone
    \/ AnalyzeReceive("app")
    \/ \E result \in AiResults : AiSucceed("app", result)
    \/ \E failure \in AiFailures \ {TimedOut} : AiFail("app", failure)
    \/ AiTimeout("app")

SpecApp == ServedInit /\ [][AppNext]_vars

\* What App sends: short texts and texts about as long as the textarea
\* takes are typed, an example is clicked, and the fetch is on its way to
\* the facade or rejects at once.
TextareaNext ==
    \/ \E p \in UiProducts : SelectProduct(p)
    \/ \E typed \in UiQueries \cup UiLongTexts : TypeQuery(typed)
    \/ \E example \in UiExamples : HandleExampleClick(example)
    \/ AppHandleSubmit(TRUE, "")
    \/ AppHandleSubmit(FALSE, "Failed to fetch")
    \/ AppHandleSubmitDone

SpecTextarea == ServedInit /\ [][TextareaNext]_vars

\* Either copy of App in front of the facade, with a blank and a plain
\* description typed.
AppCopiesNext ==
    \/ \E p \in UiProducts : SelectProduct(p)
    \/ \E typed \in {<<" ">>, <<"a">>} : TypeQuery(typed)
    \/ \E example \in UiExamples : HandleExampleClick(example)
    \/ AppHandleSubmit(TRUE, "")
    \/ \E text \in RejectionTexts : AppHandleSubmit(FALSE, text)
    \/ AppHandleSubmitDone
    \/ AnalyzeReceive("app")
    \/ \E result \in AiResults : AiSucceed("app", result)
    \/ \E failure \in AiFailures \ {TimedOut} : AiFail("app", failure)
    \/ AiTimeout("app")

SpecAppCopies == AppServedInit /\ [][AppCopiesNext]_vars

\* One product and one query in App, and every way the request can end.
\* The facade takes up every request it receives, the timeout that bounds
\* the external AI call runs out if nothing else ends the call, and the
\* continuation of an answered fetch is run.
AppLiveNext ==
    \/ SelectProduct("allocator")
    \/ TypeQuery(<<"a">>)
    \/ AppHandleSubmit(TRUE, "")
    \/ \E text \in RejectionTexts : AppHandleSubmit(FALSE, text)
    \/ AppHandleSubmitDone
    \/ AnalyzeReceive("app")
    \/ \E result \in AiResults : AiSucceed("app", result)
    \/ \E failure \in AiFailures \ {TimedOut} : AiFail("app", failure)
    \/ AiTimeout("app")

SpecAppLive ==
    /\ AppServedInit
    /\ [][AppLiveNext]_vars
    /\ WF_vars(AnalyzeReceive("app"))
    /\ WF_vars(AiTimeout("app"))
    /\ WF_vars(AppHandleSubmitDone)

AnalyzeNext ==
    CacheNext \/ FacadeNext \/ AppNext \/ AppLiveNext \/ TriggerNext


\* ------------------------------------------------- feedback and retention

\* PRAGMA foreign_keys on the connection.
PragmaForeignKeys(on) ==
    /\ foreign_keys # on
    /\ foreign_keys' = on
    /\ UNCHANGED <<feedback, feedback_seq, purge_last>>
    /\ UNCHANGED <<dbvars, admvars, cachevars, anavars>>

\* INSERT INTO query_logs in autocommit: the row, and the trigger.
LogInsert(ts, smp) ==
    /\ writer = "none"
    /\ log_seq < MaxLogs
    /\ LogAnalysis(NewLogRow(log_seq, ts, smp))
    /\ UNCHANGED <<admvars, cachevars, anavars, fbvars>>

\* FOREIGN KEY (query_id) REFERENCES query_logs(id): what an enforcing
\* database accepts.
ReferenceHolds(logs, qid) ==
    IF IsNull(qid) THEN TRUE ELSE \E row \in logs : row.id = Get(qid)

\* INSERT INTO feedback (query_id, helpful).
FeedbackInsert(qid, helpful) ==
    /\ writer = "none"
    /\ feedback_seq < MaxFeedback
    /\ foreign_keys => ReferenceHolds(query_logs, qid)
    /\ feedback' = feedback \cup
           {[id |-> feedback_seq + 1, query_id |-> qid, helpful |-> helpful]}
    /\ feedback_seq' = feedback_seq + 1
    /\ UNCHANGED <<foreign_keys, purge_last>>
    /\ UNCHANGED <<dbvars, admvars, cachevars, anavars>>

\* ON DELETE CASCADE: the feedback rows that go with a deleted log row,
\* when foreign keys are enforced.
Cascade(fb, id, enforced) ==
    IF enforced THEN {f \in fb : f.query_id = Val(id)} ELSE {}

\* Mutant: a trigger AFTER DELETE ON query_logs that recomputes the row of
\* the deleted row's date.
StatsAfterDeleteRecomputed(logs, stats, old) ==
    InsertOrReplace(stats, UsageStatsSelect(logs, old))

\* usage_stats after a DELETE on query_logs: the schema's only trigger on
\* query_logs is AFTER INSERT, so nothing is recomputed.
StatsAfterDelete(logs, stats, old) == stats

\* The retention policy purges a log row: DELETE FROM query_logs WHERE
\* id = ?.
Purge(id) ==
    /\ writer = "none"
    /\ \E row \in query_logs : row.id = id
    /\ query_logs' = {row \in query_logs : row.id # id}
    /\ usage_stats' =
           StatsAfterDelete({row \in query_logs : row.id # id}, usage_stats,
                            CHOOSE row \in query_logs : row.id = id)
    /\ feedback' = feedback \ Cascade(feedback, id, foreign_keys)
    /\ purge_last' =
           [id |-> id,
            referring |-> {f.id : f \in {x \in feedback : x.query_id = Val(id)}}]
    /\ UNCHANGED <<log_seq, writer, conn, journal, inserted_by, db_last>>
    /\ UNCHANGED <<feedback_seq, foreign_keys>>
    /\ UNCHANGED <<admvars, cachevars, anavars>>

RetentionNext ==
    \/ \E on \in BOOLEAN : PragmaForeignKeys(on)
    \/ \E ts \in RetentionTimestamps, smp \in RetentionSamples :
           LogInsert(ts, smp)
    \/ \E qid \in QueryIds, helpful \in RetentionHelpful :
           FeedbackInsert(qid, helpful)
    \/ \E id \in 1..MaxLogs : Purge(id)

SpecRetention == SecondCopyInit /\ [][RetentionNext]_vars

\* ------------------------------------- other writers of the statistics

\* The timestamps and dates the runs below draw from.
StatsTimestamps == {Null, Val(0), Val(TicksPerDay)}
StatsDates == {0, 1}

\* What a reporting job writes into the columns the trigger does not name.
ReportedColumns ==
    [top_products |-> Val("allocator"), unique_users |-> 1, total_errors |-> 1]

\* UPDATE usage_stats SET top_products = ?, unique_users = ?,
\* total_errors = ? WHERE date = ?
StatsUpdate(d, cols) ==
    /\ writer = "none"
    /\ \E s \in usage_stats :
           s.date = Val(d) /\ s.top_products # cols.top_products
    /\ usage_stats' =
           {IF s.date = Val(d)
            THEN [s EXCEPT !.top_products = cols.top_products,
                           !.unique_users = cols.unique_users,
                           !.total_errors = cols.total_errors]
            ELSE s : s \in usage_stats}
    /\ db_last' = [op |-> "reported", id |-> d, contended |-> FALSE]
    /\ UNCHANGED <<query_logs, log_seq, writer, conn, journal, inserted_by>>
    /\ UNCHANGED <<admvars, facadevars>>

\* UPDATE query_logs SET success = ?, response_time_ms = ? WHERE id = ?.
\* No trigger of the schema runs on UPDATE of query_logs.
LogUpdate(id, smp) ==
    /\ writer = "none"
    /\ \E row \in query_logs :
           /\ row.id = id
           /\ <<row.success, row.response_time_ms>> #
                  <<smp.success, smp.response_time_ms>>
    /\ query_logs' =
           {IF row.id = id
            THEN [row EXCEPT !.success = smp.success,
                             !.response_time_ms = smp.response_time_ms]
            ELSE row : row \in query_logs}
    /\ UNCHANGED <<usage_stats, log_seq, writer, conn, journal, inserted_by,
                   db_last>>
    /\ UNCHANGED <<admvars, facadevars>>

StatsNext ==
    \/ \E ts \in StatsTimestamps, smp \in Samples : LogInsert(ts, smp)
    \/ \E d \in StatsDates : StatsUpdate(d, ReportedColumns)
    \/ \E id \in 1..MaxLogs, smp \in Samples : LogUpdate(id, smp)
    \/ \E id \in 1..MaxLogs : Purge(id)

SpecStats == ServedInit /\ [][StatsNext]_vars

\* ------------------------------------------------ usage statistics claims

Days == {Get(DATE(ts)) : ts \in Timestamps \ {Null}}

\* The log rows whose calendar date is d, and the usage_stats rows for d.
LogsOn(d) == {r \in query_logs : DATE(r.timestamp) = Val(d)}
StatsFor(d) == {s \in usage_stats : s.date = Val(d)}
SuccessesOn(d) == {r \in LogsOn(d) : r.success = Val(1)}
TimedOn(d) == {r \in LogsOn(d) : ~IsNull(r.response_time_ms)}

\* C1: for every date with at least one log row, the usage_stats row of that
\* date has total_queries = the number of log rows of the date,
\* successful_queries = the number of those with success = 1, and
\* success_rate = successful_queries / total_queries * 100.
C1_StatsMatchLog ==
    \A d \in Days :
        LogsOn(d) # {} =>
            /\ StatsFor(d) # {}
            /\ \A s \in StatsFor(d) :
                   /\ s.total_queries = Cardinality(LogsOn(d))
                   /\ s.successful_queries = Val(Cardinality(SuccessesOn(d)))
                   /\ s.success_rate =
                          Val(Rat(Cardinality(SuccessesOn(d)) * 100,
                                  Cardinality(LogsOn(d))))

\* Two rows on one date, one of them successful: the rate is 50.
C1_Witness ==
    \E d \in Days :
        /\ Cardinality(LogsOn(d)) = 2
        /\ Cardinality(SuccessesOn(d)) = 1
        /\ \E s \in StatsFor(d) : s.success_rate = Val([num |-> 50, den |-> 1])

\* C2: there is at most one usage_stats row per calendar date, and the
\* date of the row just inserted into query_logs has its row.
C2_OneRowPerDate ==
    /\ \A s1, s2 \in usage_stats :
           (~IsNull(s1.date) /\ s1.date = s2.date) => s1 = s2
    /\ \A r \in query_logs :
           (db_last.op = "inserted" /\ r.id = db_last.id
               /\ ~IsNull(r.timestamp))
           => Cardinality({s \in usage_stats : s.date = DATE(r.timestamp)}) = 1

\* A second insertion on a date has replaced the date's row, not added one.
C2_Witness ==
    \E d \in Days :
        /\ Cardinality(LogsOn(d)) = 2
        /\ Cardinality(StatsFor(d)) = 1
        /\ \E s \in StatsFor(d) : s.rowid > 1

\* C3: if the usage-stats recompute of an insertion fails, the inserted log
\* row is committed all the same.
C3_LogSurvivesStatsFailure ==
    db_last.op = "stats_failed" =>
        \E r \in query_logs : r.id = db_last.id

\* C4: once two connections have committed their insertions on one date,
\* however their transactions interleaved, the date's usage_stats row counts
\* both rows.
ConcurrentPair(a, b, d) ==
    /\ a.conn # b.conn
    /\ \E ra, rb \in LogsOn(d) : ra.id = a.id /\ rb.id = b.id

C4_NoLostUpdate ==
    \A d \in Days : \A a, b \in inserted_by :
        (writer = "none" /\ ConcurrentPair(a, b, d)) =>
            /\ StatsFor(d) # {}
            /\ \A s \in StatsFor(d) : s.total_queries = Cardinality(LogsOn(d))
            /\ Cardinality(LogsOn(d)) >= 2

\* The second insertion ran while the other connection was waiting for the
\* write lock, and both have committed.
C4_Witness ==
    \E d \in Days : \E a, b \in inserted_by :
        /\ writer = "none"
        /\ ConcurrentPair(a, b, d)
        /\ db_last.op = "inserted" /\ db_last.contended
        /\ db_last.id \in {a.id, b.id}
        /\ \E s \in StatsFor(d) : s.total_queries = 2

\* C5: avg_response_time of a date's row is the mean of response_time_ms
\* over the date's log rows where it is not NULL (NULL when there is none),
\* and the rows where it is NULL are still counted in total_queries.
C5_AvgSkipsNull ==
    \A d \in Days : \A s \in StatsFor(d) :
        /\ s.avg_response_time =
               IF TimedOn(d) = {} THEN Null
               ELSE Val(Rat(SumRespTime(TimedOn(d)), Cardinality(TimedOn(d))))
        /\ s.total_queries = Cardinality(TimedOn(d))
                               + Cardinality(LogsOn(d) \ TimedOn(d))

\* A date with one timed row and one row without a response time.
C5_Witness ==
    \E d \in Days :
        /\ Cardinality(TimedOn(d)) = 1
        /\ Cardinality(LogsOn(d) \ TimedOn(d)) = 1
        /\ \E s \in StatsFor(d) :
               /\ s.total_queries = 2
               /\ ~IsNull(s.avg_response_time)
               /\ Get(s.avg_response_time).den = 1

\* C6: recomputing the row of a date from the whole log gives, in every
\* column, the row that is stored for the date.
Recompute(d) ==
    UsageStatsSelect(query_logs, [timestamp |-> Val(d * TicksPerDay)])

C6_ReaggregationIdempotent ==
    \A d \in Days : \A s \in StatsFor(d) :
        s = UsageStatsRow(s.rowid, Recompute(d))

\* A row that was itself a replacement equals its recomputation.
C6_Witness ==
    \E d \in Days : \E s \in StatsFor(d) :
        /\ s.rowid > 1
        /\ s.total_queries = 2
        /\ s = UsageStatsRow(s.rowid, Recompute(d))

Next == DbNext \/ AdmNext \/ AnalyzeNext \/ RetentionNext \/ StatsNext

Spec == Init /\ [][Next]_vars


\* --------------------------------------------- admin gate and config claims

\* C7: a configuration write succeeds exactly when the session is LoggedIn
\* (then the store holds what was sent); any other write is answered
\* Unauthorized and leaves the store as it was.  The newer dashboard sends a
\* write only while it shows the dashboard, and either dashboard reports
\* success only for a write the server answered with success.
C7_WriteOnlyWhenLoggedIn ==
    /\ cfg_last.by # "none" =>
          /\ cfg_last.ok <=> cfg_last.authorized
          /\ cfg_last.authorized => api_key = cfg_last.sent
          /\ ~cfg_last.authorized =>
                 /\ cfg_last.error = "Unauthorized"
                 /\ api_key = cfg_last.before
    /\ cfg_last.by = "saveConfig" => cfg_last.shown
    /\ (ui_last.op = "saveConfigDone" /\ dashboard.message = SavedMsg)
           => ui_last.arg = "ok"
    /\ (ui_last.op = "saveConfigurationDone"
           /\ legacy.message = Val([type |-> "success", text |-> SavedMsg]))
           => ui_last.arg = "ok"
    /\ \A q \in BagToSet(pending) :
           (Endpoint(q) = "POST config" /\ q.resp.kind = "http")
               => q.resp \in {Ok200, Unauthorized401}

\* A write sent after the session had ended was refused, the store kept its
\* value, and the dashboard shows the refusal.
C7_Witness ==
    /\ cfg_last.by = "saveConfig"
    /\ ~cfg_last.authorized
    /\ cfg_last.sent # cfg_last.before
    /\ api_key = cfg_last.before
    /\ dashboard.message = "Unauthorized"

\* C8 as stated: once the key is set, after either dashboard has loaded the
\* configuration its API-key field holds the empty string or the mask.
C8_FieldMaskedAfterLoad ==
    api_key # "" =>
        /\ ui_last.op = "loadConfigurationDone" => legacy.apiKey \in {"", Mask}
        /\ ui_last.op = "loadConfigDone"
               => dashboard.config.claude_api_key \in {"", Mask}

\* C8, amended: no read of the configuration brings the stored key to the
\* client.  No response carries it; the legacy dashboard's load sets the
\* field to the empty string or the mask; the newer dashboard's load leaves
\* the field as it was.
C8_LoadNeverExposesKey ==
    /\ \A q \in BagToSet(pending) :
           q.resp.claude_api_key \in {"", ServerMasked}
    /\ ui_last.op = "loadConfigurationDone" => legacy.apiKey \in {"", Mask}
    /\ ui_last.op = "loadConfigDone"
           => dashboard.config.claude_api_key = ui_last.arg

\* The legacy dashboard has loaded a configuration whose key is set, over a
\* field that held the typed key: it shows the mask.
C8_Witness ==
    /\ api_key # ""
    /\ ui_last.op = "loadConfigurationDone"
    /\ ui_last.arg = api_key
    /\ legacy.apiKey = Mask

\* C9: the Nth consecutive failed login locks the account until
\* now + lockout_duration, fewer failures do not, and a login evaluated
\* while the account is locked is refused as AccountLocked whatever the
\* password; AdminLogin then shows that refusal.
C9_LockedAfterNFailures ==
    /\ acct.login_attempts <= LockThreshold
    /\ acct.login_attempts = LockThreshold <=> ~IsNull(acct.locked_until)
    /\ (auth_last.user_ok /\ acct.login_attempts = LockThreshold
           /\ auth_last.result = "InvalidCredentials")
           => acct.locked_until = Val(auth_last.at + LockoutDuration)
    /\ auth_last.was_locked <=> auth_last.result = "AccountLocked"
    /\ auth_last.was_locked =>
           /\ Locked(acct, auth_last.at)
           /\ \A q \in Answered("admin", "handleSubmit") :
                  (q.owner = "mounted" /\ q.resp.kind = "http")
                      => q.resp = LoginResponse("AccountLocked")
    /\ (ui_last.op = "handleSubmitDone" /\ ui_last.arg = "AccountLocked")
           => login = [error |-> "AccountLocked", loading |-> FALSE]

\* The right password was refused while the lock was running, and the
\* login form shows it.
C9_Witness ==
    /\ auth_last.was_locked
    /\ auth_last.pw_ok
    /\ auth_last.result = "AccountLocked"
    /\ acct.login_attempts = LockThreshold
    /\ ui_last.op = "handleSubmitDone"
    /\ login.error = "AccountLocked"
    /\ session = "LoggedOut"

\* C10: a login evaluated once locked_until has elapsed is a fresh attempt:
\* with the right password it succeeds and login_attempts is 0, with a
\* wrong one it is refused as InvalidCredentials and login_attempts is 1.
C10_FreshAttemptAfterLock ==
    auth_last.was_elapsed =>
        IF auth_last.pw_ok
        THEN /\ auth_last.result = "ok"
             /\ acct.login_attempts = 0
             /\ IsNull(acct.locked_until)
             /\ acct.last_login = Val(auth_last.at)
        ELSE /\ auth_last.result = "InvalidCredentials"
             /\ acct.login_attempts = 1
             /\ IsNull(acct.locked_until) <=> 1 < LockThreshold

\* A wrong password after the lock ran out counted as the first failure.
C10_Witness ==
    /\ auth_last.was_elapsed
    /\ ~auth_last.pw_ok
    /\ auth_last.attempts_before = LockThreshold
    /\ acct.login_attempts = 1

\* C11: logout invalidates the session credential and is idempotent.  After
\* any logout the gate evaluated the session is LoggedOut and the call was
\* answered without error, also when the session was already LoggedOut; the
\* dashboard that got the answer is no longer authenticated, so that its
\* next render shows the login form.
C11_LogoutIdempotent ==
    /\ ui_last.op \in {"handleLogout", "logoutElsewhere"}
           => /\ session = "LoggedOut"
              /\ ui_last.arg \in {"LoggedIn", "LoggedOut"}
    /\ \A q \in Answered("admin", "handleLogout") :
           q.resp \in {Ok200, NetError}
    /\ (ui_last.op = "handleLogoutDone" /\ ui_last.arg = "http")
           => ~dashboard.isAuthenticated

\* The dashboard's Logout reached the gate when the session had already
\* been ended from the other tab: answered 200, still LoggedOut.
C11_Witness ==
    /\ ui_last = LogoutStep("handleLogout", "LoggedOut")
    /\ Ok200 \in {q.resp : q \in Answered("admin", "handleLogout")}
    /\ session = "LoggedOut"
    /\ DashboardShown
    /\ dashboard.isAuthenticated


\* -------------------------------------------- response cache and analysis claims

\* C12, as stated: an analyze of a valid product and query on an empty
\* cache makes exactly one external AI call, one cache store and one
\* query-log row with success = 1; an analyze that finds an unexpired row
\* for its normalized (product, query) is answered from the cache with no
\* external AI call.
C12_OneAiCallThenCached ==
    \A c \in Callers :
        LET r == calls[c]
        IN  /\ (r.stage = "answered" /\ r.empty_before
                    /\ r.product \in ProductIds)
                   => /\ r.ai = 1 /\ r.stores = 1 /\ r.logs = 1
                      /\ \E row \in query_logs :
                             row.id = r.log_id /\ row.success = Val(1)
                      /\ sent_count = 1 =>
                             /\ ai_calls = 1
                             /\ cache_seq = 1
                             /\ Cardinality(response_cache) = 1
                             /\ Cardinality(query_logs) = 1
            /\ (r.stage \in {"ai", "answered"} /\ r.fresh_before)
                   => /\ r.stage = "answered"
                      /\ r.ai = 0
                      /\ r.resp.ok
                      /\ r.resp.solution \in {x.text : x \in AiResults}

\* C12, amended: an analyze of a valid product and query on an empty cache
\* makes exactly one external AI call and one query-log row.  When the call
\* succeeds there is one cache store and the row has success = 1; when it
\* fails or times out nothing is stored and the row has success = 0.  An
\* analyze that finds an unexpired row for its normalized (product, query)
\* is answered from the cache with no external AI call.
C12_StoredWhenAiSucceeds ==
    \A c \in Callers :
        LET r == calls[c]
            succeeded == IsNull(r.failure)
            n == IF succeeded THEN 1 ELSE 0
        IN  /\ (r.stage = "answered" /\ r.empty_before
                    /\ r.product \in ProductIds)
                   => /\ r.ai = 1 /\ r.stores = n /\ r.logs = 1
                      /\ r.resp.ok <=> succeeded
                      /\ \E row \in query_logs :
                             row.id = r.log_id /\ row.success = Val(n)
                      /\ sent_count = 1 =>
                             /\ ai_calls = 1
                             /\ cache_seq = n
                             /\ Cardinality(response_cache) = n
                             /\ Cardinality(query_logs) = 1
            /\ (r.stage \in {"ai", "answered"} /\ r.fresh_before)
                   => /\ r.stage = "answered"
                      /\ r.ai = 0
                      /\ r.resp.ok
                      /\ r.resp.solution \in {x.text : x \in AiResults}

\* The first analyze failed on the empty cache and stored nothing, the
\* second made its own AI call, which was stored, and the same query
\* written differently was then answered from the cache.
C12_Witness ==
    /\ ai_calls = 2
    /\ calls["other"].stage = "answered"
    /\ calls["other"].empty_before
    /\ ~IsNull(calls["other"].failure)
    /\ calls["other"].stores = 0
    /\ calls["direct"].stage = "answered"
    /\ calls["direct"].fresh_before
    /\ calls["direct"].ai = 0
    /\ calls["direct"].query # calls["other"].query
    /\ Cardinality(response_cache) = 1
    /\ Cardinality(query_logs) = 3

\* C13: a request whose product is not in the catalog is answered with
\* InvalidRequest, and the step that answers it leaves the query log, the
\* statistics and the cache as they were and makes no AI call.
C13_InvalidProductRejected ==
    [][\A c \in Callers :
          (calls[c].stage = "sent" /\ calls'[c].stage # "sent"
              /\ calls[c].product \notin ProductIds)
              => /\ calls'[c].stage = "answered"
                 /\ calls'[c].resp = InvalidRequest400
                 /\ query_logs' = query_logs
                 /\ usage_stats' = usage_stats
                 /\ response_cache' = response_cache
                 /\ ai_calls' = ai_calls]_vars

\* An unknown product was refused while the log held an earlier analysis.
C13_Witness ==
    /\ calls["direct"].stage = "answered"
    /\ calls["direct"].product = "not-a-real-product"
    /\ calls["direct"].resp = InvalidRequest400
    /\ calls["direct"].logs = 0
    /\ Cardinality(query_logs) = 1

\* A step of the cache that is a lookup.
LookupStep ==
    /\ cache_last'.op \in {"hit", "miss"}
    /\ now' = now
    /\ <<cache_last, response_cache>>' # <<cache_last, response_cache>>

\* A step of the cache that is a store.
StoreStep ==
    /\ cache_last'.op = "store"
    /\ now' = now
    /\ <<cache_last, response_cache>>' # <<cache_last, response_cache>>

\* C14: a lookup with the normalized (product, query) of a stored row,
\* before the row expires, returns the stored text and raises the row's
\* hit_count by exactly 1, changing nothing else.
C14_LookupReturnsStoredAndCounts ==
    [][LookupStep =>
          LET valid == {row \in KeyRows(response_cache, cache_last'.product,
                                        cache_last'.query) :
                            ~Expired(row, now)}
          IN  valid # {} =>
                  \E row \in valid :
                      /\ cache_last'.op = "hit"
                      /\ cache_last'.text = Val(row.response_text)
                      /\ response_cache' =
                             (response_cache \ {row}) \cup
                                 {[row EXCEPT !.hit_count = @ + 1]}]_vars

\* The second lookup of a stored row, under another spelling of the query,
\* returned its text; the row counts two hits.
C14_Witness ==
    /\ cache_last.op = "hit"
    /\ cache_last.query = <<" ", "a">>
    /\ \E row \in response_cache :
           /\ row.query_hash = <<cache_last.product, <<"a">>>>
           /\ row.hit_count = 2
           /\ cache_last.text = Val(row.response_text)

\* C15: a lookup at now >= expires_at is a miss and leaves the expired row
\* in the table; a store for the key leaves exactly one row for it, the new
\* one.
C15_ExpiredIsMissAndOverwritten ==
    [][/\ LookupStep =>
              LET rows == KeyRows(response_cache, cache_last'.product,
                                  cache_last'.query)
              IN  (rows # {} /\ \A row \in rows : Expired(row, now))
                      => /\ cache_last'.op = "miss"
                         /\ response_cache' = response_cache
       /\ StoreStep =>
              LET rows == KeyRows(response_cache', cache_last'.product,
                                  cache_last'.query)
              IN  /\ Cardinality(rows) = 1
                  /\ \A row \in rows :
                         /\ ~Expired(row, now)
                         /\ row.created_at = Val(now)
                         /\ Val(row.response_text) = cache_last'.text]_vars

\* A lookup at the very instant of expiry missed, and the row is still
\* there.
C15_Witness ==
    /\ cache_last.op = "miss"
    /\ \E row \in KeyRows(response_cache, cache_last.product,
                           cache_last.query) :
           row.expires_at = Val(now)

\* C16: the hit_count of a response_cache row never decreases, whatever
\* the facade does and however the requests of its callers interleave.
C16_HitCountMonotonic ==
    [][\A row \in response_cache, after \in response_cache' :
          row.id = after.id => after.hit_count >= row.hit_count]_vars

\* Two requests that were at the facade together both hit the same row.
C16_Witness ==
    /\ calls["direct"].stage = "answered" /\ calls["direct"].hit
    /\ calls["other"].stage = "answered" /\ calls["other"].hit
    /\ calls["direct"].overlap \/ calls["other"].overlap
    /\ \E row \in response_cache : row.hit_count = 2

\* C17: every response_cache row has expires_at > created_at.
C17_ExpiresAfterCreated ==
    \A row \in response_cache :
        /\ ~IsNull(row.created_at)
        /\ ~IsNull(row.expires_at)
        /\ Get(row.expires_at) > Get(row.created_at)

\* A row stored over an earlier one, after time had passed.
C17_Witness ==
    \E row \in response_cache :
        /\ row.id = 2
        /\ row.created_at = Val(1)
        /\ row.expires_at = Val(1 + CacheExpiryTicks)

\* C18: when a query_logs row is purged, the feedback rows that reference
\* it are kept, their query_id left dangling.
C18_FeedbackKeptOnPurge ==
    \A fid \in purge_last.referring :
        \E f \in feedback : f.id = fid /\ f.query_id = Val(purge_last.id)

\* C19: when the external AI call fails (timeout, non-2xx, malformed
\* content), the query log gets a row with success = 0 and the failure
\* reason, the caller is answered with the generic message whatever the
\* upstream error text was, and that message is what App displays.
C19_FailureLoggedAndGeneric ==
    [][LET r == calls'["app"]
       IN  /\ ~IsNull(r.failure) =>
                  /\ r.resp = [NoAnswer EXCEPT !.kind = "http",
                                               !.message = AnalysisFailedMsg]
                  /\ \E row \in query_logs' :
                         /\ row.id = r.log_id
                         /\ row.success = Val(0)
                         /\ row.error_message = Val(Get(r.failure).text)
           /\ (calls["app"].stage = "answered" /\ r.stage = "done"
                   /\ ~IsNull(r.failure))
                  => /\ app'.error = Val(AnalysisFailedMsg)
                     /\ app'.response = Null]_vars

\* The upstream refused the API key: the reason is in the log, App shows
\* the generic message.
C19_Witness ==
    /\ calls["app"].stage = "done"
    /\ calls["app"].failure =
           Val([kind |-> "non2xx", text |-> "401 invalid x-api-key"])
    /\ app.error = Val(AnalysisFailedMsg)
    /\ \E row \in query_logs :
           /\ row.id = calls["app"].log_id
           /\ row.success = Val(0)
           /\ row.error_message = Val("401 invalid x-api-key")

\* C20: every submitted analysis request completes: whenever App is
\* loading, isLoading eventually returns to false.
C20_RequestCompletes == app.isLoading ~> ~app.isLoading

\* The external AI call timed out and App is no longer loading.
C20_Witness ==
    /\ calls["app"].stage = "done"
    /\ calls["app"].failure = Val(TimedOut)
    /\ ~app.isLoading
    /\ app.error = Val(AnalysisFailedMsg)

\* C21: whenever a request of the dashboard's loaders is answered with a
\* 4xx/5xx status, the dashboard ends in a state that shows the error
\* banner: message is not empty.
C21_ErrorBannerOnRefusal ==
    (ui_last.op \in {"loadSystemStatusDone", "loadStatsDone"}
        /\ ui_last.arg = "refused")
    => dashboard.message # ""

\* C22: whenever App displays a response, the request that produced it was
\* submitted for the product that is selected now.
C22_ResponseForSelectedProduct ==
    ~IsNull(app.response) => calls["app"].product = app.selectedProduct

\* The usage_stats rows of date d in a table, and the rows a step inserted
\* into query_logs.
StatsOf(stats, d) == {s \in stats : s.date = d}
Inserted(before, after) ==
    {row \in after : row.id \notin {r.id : r \in before}}

\* C23: after an insertion into query_logs on date d, the usage_stats row of
\* d has unique_users = 0, total_errors = 0 and top_products NULL, whatever
\* those columns held before.
C23_InsertResetsOtherColumns ==
    [][\A row \in Inserted(query_logs, query_logs') :
          ~IsNull(row.timestamp) =>
              /\ StatsOf(usage_stats', DATE(row.timestamp)) # {}
              /\ \A s \in StatsOf(usage_stats', DATE(row.timestamp)) :
                     /\ s.unique_users = 0
                     /\ s.total_errors = 0
                     /\ s.top_products = Null]_vars

\* The date's row carried reported values, a second row was logged on the
\* date, and the values are gone.
C23_Witness ==
    /\ db_last.op = "reported"
    /\ \E s \in usage_stats :
           /\ s.date = Val(db_last.id)
           /\ s.total_queries = 2
           /\ s.unique_users = 0 /\ s.total_errors = 0
           /\ s.top_products = Null

\* C24: a step that deletes or updates a query_logs row, and inserts none,
\* leaves every usage_stats row as it was.
C24_StatsChangeOnlyOnInsert ==
    [][(query_logs' # query_logs /\ Inserted(query_logs, query_logs') = {})
          => usage_stats' = usage_stats]_vars

\* A log row was purged, and the stored total_queries of its date is no
\* longer the number of log rows of the date.
C24_Witness ==
    /\ purge_last.id # 0
    /\ \E s \in usage_stats :
           /\ ~IsNull(s.date)
           /\ s.total_queries = 2
           /\ Cardinality(LogsOn(Get(s.date))) = 1

\* C25: an insertion into query_logs of a row whose date is d leaves the
\* usage_stats rows of every other date as they were.
C25_OtherDatesUntouched ==
    [][\A row \in Inserted(query_logs, query_logs') :
          \A s \in usage_stats :
              s.date # DATE(row.timestamp) => s \in usage_stats']_vars

\* The row of the second day was written after the row of the first day,
\* which still counts its one log row.
C25_Witness ==
    \E s0, s1 \in usage_stats :
        /\ s0.date = Val(0) /\ s1.date = Val(1)
        /\ s1.rowid > s0.rowid
        /\ s0.total_queries = 1
        /\ Cardinality(LogsOn(0)) = 1

\* C26: in App, error and response are never both set.
C26_ErrorXorResponse == ~(~IsNull(app.error) /\ ~IsNull(app.response))

\* In the first copy of App, a first request was answered and its analysis
\* displayed; the second request failed, and only the error is displayed.
C26_Witness ==
    /\ app_copy = "part_001"
    /\ sent_count >= 2
    /\ response_cache # {}
    /\ calls["app"].stage = "done"
    /\ ~IsNull(app.error)
    /\ IsNull(app.response)

\* A request of App that has been issued and whose continuation has not run.
AppInFlight == calls["app"].stage \in {"sent", "ai", "answered"}

\* C27: at most one /api/analyze request of App is in flight: a request is
\* issued only when the one before it has settled, isLoading is true from
\* submission until the request has settled, and while it is true the
\* button is disabled.
C27_OneRequestInFlight ==
    [][/\ (calls'["app"] # calls["app"] /\ sent_count' = sent_count + 1)
           => ~AppInFlight
       /\ AppInFlight' => app'.isLoading
       /\ app'.isLoading => ~CanSubmit']_vars

\* A second request is under way, the first one having settled.
C27_Witness ==
    /\ sent_count = 2
    /\ calls["app"].stage = "ai"
    /\ app.isLoading
    /\ ~CanSubmit

\* C28: every POST /api/analyze that handleSubmit issues carries one of the
\* four catalog ids as product and the trimmed text of the textarea as
\* query, which is not empty and at most 2000 characters long; no request
\* is issued while no product is selected or the trimmed text is empty.
C28_RequestBodyValid ==
    [][(calls'["app"] # calls["app"] /\ sent_count' = sent_count + 1) =>
          /\ calls'["app"].product \in ProductIds
          /\ calls'["app"].product = app.selectedProduct
          /\ calls'["app"].query = Trim(app.query)
          /\ calls'["app"].query # <<>>
          /\ Len(calls'["app"].query) <= TextareaMaxLength
          /\ ValidQuery(calls'["app"].query)]_vars

\* A blank and more letters than fit were typed: the textarea holds the
\* first maxLength characters of them, and the request under way carries
\* these without the blank.
C28_Witness ==
    /\ calls["app"].stage = "sent"
    /\ Len(app.query) = TextareaMaxLength
    /\ Head(app.query) = " "
    /\ calls["app"].query = Tail(app.query)
    /\ Len(calls["app"].query) = TextareaMaxLength - 1
    /\ calls["app"].product = app.selectedProduct

\* C29: saveConfiguration of the legacy dashboard sends a config POST only
\* when the field is neither empty nor the mask; otherwise it sets the error
\* message and leaves apiKey, isLoading and the server's configuration as
\* they were.  After a successful save the field holds the mask.
C29_NothingSentForEmptyOrMask ==
    [][/\ ui_last'.op = "saveConfiguration"
            => (legacy.apiKey # "" /\ legacy.apiKey # Mask)
       /\ ui_last'.op = "saveConfigurationRejected"
            => /\ legacy.apiKey = "" \/ legacy.apiKey = Mask
               /\ legacy'.message =
                      Val([type |-> "error", text |-> EnterKeyMsg])
               /\ legacy'.apiKey = legacy.apiKey
               /\ legacy'.isLoading = legacy.isLoading
               /\ pending' = pending
               /\ api_key' = api_key /\ cfg_last' = cfg_last
       /\ (ui_last'.op = "saveConfigurationDone" /\ ui_last'.arg = "ok")
            => legacy'.apiKey = Mask]_vars

\* A key was saved, the field shows the mask, and the save that followed
\* was turned away with the key on the server as it was.
C29_Witness ==
    /\ ui_last.op = "saveConfigurationRejected"
    /\ legacy.apiKey = Mask
    /\ cfg_last.by = "saveConfiguration" /\ cfg_last.ok
    /\ api_key = cfg_last.sent
    /\ api_key \in Keys
    /\ ~legacy.isLoading

\* C30: the update_cache_hit_count trigger terminates and changes nothing:
\* it runs at most once for an UPDATE, its own UPDATE does not fire it
\* again, and the row afterwards is the row the triggering UPDATE produced.
C30_TriggerIsNoOp ==
    [][cache_last'.op = "update" =>
          /\ cache_last'.fired <= 1
          /\ cache_last'.fired = (IF cache_last'.raise THEN 1 ELSE 0)
          /\ cache_last'.updated \in response_cache'
          /\ \A row \in response_cache' :
                 row.id # cache_last'.updated.id => row \in response_cache]_vars

\* A hit was counted on a connection with recursive triggers on: the
\* trigger ran once and the row carries the count the UPDATE gave it.
C30_Witness ==
    /\ cache_last.op = "update"
    /\ cache_last.recursive /\ cache_last.raise
    /\ cache_last.fired = 1
    /\ cache_last.updated \in response_cache
    /\ cache_last.updated.hit_count = 2

====
